---- MODULE Spec2Model ----
(***************************************************************************)
(* A model of cyphr: the conversion of neo4rs wire values (BoltType) into  *)
(* Rust types (cyphr-core/src/value.rs), the error chain                   *)
(* (cyphr-core/src/error.rs), the record / property accessors, the code   *)
(* that the derive macros of cyphr-macros generate, the bindings of        *)
(* cypher_query!, and the fetch methods and the row stream of src/query.rs *)
(* and src/stream.rs.                                                      *)
(*                                                                         *)
(* Wire values are records [tag |-> <variant>, <payload>].  Decoded Rust   *)
(* values are records [h |-> <type>, <payload>].  A Result is Ok(x) or     *)
(* Err(e).  An Option that the code only inspects and never returns to the *)
(* caller is a sequence of length at most one.                             *)
(***************************************************************************)
EXTENDS Integers, Sequences, FiniteSets, TLC

VARIABLES
    value,      \* the BoltType handed to from_value
    ty,         \* the target type T of that from_value call
    record,     \* the neo4rs::Row handed to from_record
    ast,        \* the struct declaration a derive macro was expanded on
    entity,     \* the BoltNode / BoltRelation handed to from_node / from_rel
    self,       \* the struct to_params is called on
    err,        \* the CyphrError that with_context is applied to
    root,       \* the error the chain in err was started from
    applied,    \* the labels with_context was called with, first call first
    result,     \* the Result the last call returned (NoResult before it)
    tokens,     \* the token stream cypher_query! is invoked on
    graph,      \* the backend: what execute returns and the items it delivers
    row_stream, \* the row stream a query method or a CyphrStream reads from
    returned,   \* what the calls of CyphrStream::next returned, first call first
    pc          \* the call that comes next, "done" after the last one

vars == <<value, ty, record, ast, entity, self, err, root, applied, result, tokens, graph,
          row_stream, returned, pc>>

\* Result<T, CyphrError>
Ok(x) == [ok |-> TRUE, val |-> x]
Err(e) == [ok |-> FALSE, err |-> e]
NoResult == [none |-> TRUE]

\* a variable that takes no part in the call at hand
Idle == [idle |-> TRUE]

\* Option<T> inside the code
None == << >>
Some(x) == <<x>>

(***************************************************************************)
(* error.rs                                                                *)
(***************************************************************************)
Mapping(msg) == [kind |-> "Mapping", msg |-> msg]

Neo4j(msg) == [kind |-> "Neo4j", neo4j |-> msg]

type_mismatch(expected, got, context) ==
    [kind |-> "TypeMismatch", expected |-> expected, got |-> got, context |-> context]

missing_property(property, label) ==
    [kind |-> "MissingProperty", property |-> property, label |-> label]

missing_field(field, struct_name) ==
    [kind |-> "MissingField", field |-> field, struct_name |-> struct_name]

\* with_context, wrapping an error that is already a Context in place of
\* nesting it: the chain never grows beyond one layer.
with_context_Flat(e, ctx) ==
    IF e.kind = "Context"
    THEN [kind |-> "Context", context |-> ctx, source |-> e.source]
    ELSE [kind |-> "Context", context |-> ctx, source |-> e]

RECURSIVE with_context_Inside(_, _)
\* A faulty with_context: the new label is put beneath the labels the error
\* already carries, next to the root cause
with_context_Inside(e, ctx) ==
    IF e.kind = "Context"
    THEN [kind |-> "Context", context |-> e.context,
          source |-> with_context_Inside(e.source, ctx)]
    ELSE [kind |-> "Context", context |-> ctx, source |-> e]

with_context(e, ctx) == [kind |-> "Context", context |-> ctx, source |-> e]

\* Result::map_err(|e| e.with_context(ctx))
map_err_with_context(r, ctx) == IF r.ok THEN r ELSE Err(with_context(r.err, ctx))

RECURSIVE Display(_)
\* the #[error("...")] format strings of the thiserror derive
Display(e) ==
    CASE e.kind = "Mapping" -> "mapping error: " \o e.msg
      [] e.kind = "MissingProperty" ->
            "missing property '" \o e.property \o "' on " \o e.label
      [] e.kind = "MissingField" ->
            "missing field '" \o e.field \o "' on " \o e.struct_name
      [] e.kind = "TypeMismatch" ->
            "type mismatch: expected " \o e.expected \o ", got " \o e.got
                \o " (" \o e.context \o ")"
      [] e.kind = "Context" -> e.context \o ": " \o Display(e.source)
      [] e.kind = "Neo4j" -> "neo4j error: " \o e.neo4j

(***************************************************************************)
(* value.rs: type_name                                                     *)
(***************************************************************************)
\* the variants of neo4rs::BoltType, as the match of type_name lists them
BoltVariants ==
    {"Null", "Boolean", "Integer", "Float", "String", "Bytes", "List", "Map",
     "Node", "Relation", "UnboundedRelation", "Path", "Point2D", "Point3D",
     "Duration", "Date", "Time", "LocalTime", "LocalDateTime", "DateTime",
     "DateTimeZoneId"}

\* A faulty type_name: both relationship variants are called "Relationship"
type_name_Relationship(v) ==
    CASE v.tag = "Null" -> "Null"
      [] v.tag = "Boolean" -> "Boolean"
      [] v.tag = "Integer" -> "Integer"
      [] v.tag = "Float" -> "Float"
      [] v.tag = "String" -> "String"
      [] v.tag = "Bytes" -> "Bytes"
      [] v.tag = "List" -> "List"
      [] v.tag = "Map" -> "Map"
      [] v.tag = "Node" -> "Node"
      [] v.tag = "Relation" -> "Relationship"
      [] v.tag = "UnboundedRelation" -> "Relationship"
      [] v.tag = "Path" -> "Path"
      [] v.tag = "Point2D" -> "Point2D"
      [] v.tag = "Point3D" -> "Point3D"
      [] v.tag = "Duration" -> "Duration"
      [] v.tag = "Date" -> "Date"
      [] v.tag = "Time" -> "Time"
      [] v.tag = "LocalTime" -> "LocalTime"
      [] v.tag = "LocalDateTime" -> "LocalDateTime"
      [] v.tag = "DateTime" -> "DateTime"
      [] v.tag = "DateTimeZoneId" -> "DateTimeZoneId"

\* the match of type_name, arm by arm
type_name(v) ==
    CASE v.tag = "Null" -> "Null"
      [] v.tag = "Boolean" -> "Boolean"
      [] v.tag = "Integer" -> "Integer"
      [] v.tag = "Float" -> "Float"
      [] v.tag = "String" -> "String"
      [] v.tag = "Bytes" -> "Bytes"
      [] v.tag = "List" -> "List"
      [] v.tag = "Map" -> "Map"
      [] v.tag = "Node" -> "Node"
      [] v.tag = "Relation" -> "Relationship"
      [] v.tag = "UnboundedRelation" -> "UnboundedRelationship"
      [] v.tag = "Path" -> "Path"
      [] v.tag = "Point2D" -> "Point2D"
      [] v.tag = "Point3D" -> "Point3D"
      [] v.tag = "Duration" -> "Duration"
      [] v.tag = "Date" -> "Date"
      [] v.tag = "Time" -> "Time"
      [] v.tag = "LocalTime" -> "LocalTime"
      [] v.tag = "LocalDateTime" -> "LocalDateTime"
      [] v.tag = "DateTime" -> "DateTime"
      [] v.tag = "DateTimeZoneId" -> "DateTimeZoneId"

(***************************************************************************)
(* value.rs: numeric casts `v.value as $t`                                 *)
(***************************************************************************)
IntTypes == {"i64", "i32", "u64", "u32", "i16", "u16", "i8", "u8"}
FloatTypes == {"f64", "f32"}

Bits(t) ==
    CASE t \in {"i8", "u8"} -> 8
      [] t \in {"i16", "u16"} -> 16
      [] t \in {"i32", "u32"} -> 32
      [] t \in {"i64", "u64"} -> 64

Signed(t) == t \in {"i64", "i32", "i16", "i8"}

\* A faulty cast: a value beyond the range of an 8 or 16 bit target is clamped
\* to the nearest bound, as a saturating conversion would
as_int_Saturating(v, t) ==
    LET lo == IF Signed(t) THEN -(2 ^ (Bits(t) - 1)) ELSE 0
        hi == IF Signed(t) THEN 2 ^ (Bits(t) - 1) - 1 ELSE 2 ^ Bits(t) - 1
    IN  IF Bits(t) <= 16
        THEN [h |-> "int", int_ty |-> t, carry |-> 0,
              rep |-> IF v < lo THEN lo ELSE IF v > hi THEN hi ELSE v]
        ELSE [h |-> "int", int_ty |-> t, rep |-> v,
              carry |-> IF ~Signed(t) /\ v < 0 THEN 1 ELSE 0]

\* An integer of type t is [rep, carry], standing for rep + carry * 2^Bits(t):
\* the checker's integers are 32 bits wide, so a negative i64 cast to u32 or
\* u64 (v + 2^32, v + 2^64) is kept in this form.  v is within the range of
\* i32, hence of i64, so the signed casts at 32 and 64 bits keep it.
as_int(v, t) ==
    IF Bits(t) <= 16
    THEN LET r == v % (2 ^ Bits(t))
         IN  [h |-> "int", int_ty |-> t, carry |-> 0,
              rep |-> IF Signed(t) /\ r >= 2 ^ (Bits(t) - 1) THEN r - 2 ^ Bits(t) ELSE r]
    ELSE [h |-> "int", int_ty |-> t, rep |-> v,
          carry |-> IF ~Signed(t) /\ v < 0 THEN 1 ELSE 0]

\* An f64 is [m, lo]: m units of the f32 grid plus the part below the grid,
\* lo, which is zero, below half a unit, half a unit, or above half.  `as f32`
\* rounds to the nearest grid point, ties to even; `as f64` is the identity.
as_float(f, t) ==
    IF t = "f64"
    THEN [h |-> "float", float_ty |-> t, m |-> f.m, lo |-> f.lo]
    ELSE [h |-> "float", float_ty |-> t, lo |-> "zero",
          m |-> CASE f.lo \in {"zero", "below"} -> f.m
                  [] f.lo = "half" -> IF f.m % 2 = 0 THEN f.m ELSE f.m + 1
                  [] f.lo = "above" -> f.m + 1]

(***************************************************************************)
(* record.rs, props.rs: lookups by key.  A Row, and the property bag of a  *)
(* node or relationship, is a function from its keys to wire values.       *)
(***************************************************************************)
\* A faulty get_value: a column that holds Null is reported as absent
get_value_NullAsNone(rec, key) ==
    IF key \in DOMAIN rec /\ rec[key] # [tag |-> "Null"] THEN Some(rec[key]) ELSE None

get_value(rec, key) == IF key \in DOMAIN rec THEN Some(rec[key]) ELSE None

has_key(rec, key) == get_value(rec, key) # None

node_prop(node, key) == IF key \in DOMAIN node.props THEN Some(node.props[key]) ELSE None

rel_prop(rel, key) == IF key \in DOMAIN rel.props THEN Some(rel.props[key]) ELSE None

(***************************************************************************)
(* Struct declarations, as the derive macros read them.                    *)
(*   ast   = [ident, label, type, fields]   label, type: None or Some(str) *)
(*   field = [ident, ty, flatten, prop]     prop: None or Some(str)        *)
(* A type is [k |-> <constructor>, ...]; the type `Option<T>` records in   *)
(* seg the first segment of the path it is written with ("Option" for      *)
(* Option<T>, "std" for std::option::Option<T>).                           *)
(***************************************************************************)
\* node.rs get_label: the label attribute, else the struct's identifier
get_label(a) == IF a.label # None THEN a.label[1] ELSE a.ident

\* relation.rs get_rel_meta: the type attribute, else the struct's identifier
get_rel_meta(a) == IF a.type # None THEN a.type[1] ELSE a.ident

\* node.rs / relation.rs expand: prop_key is the prop attribute, else the field name
prop_key(f) == IF f.prop # None THEN f.prop[1] ELSE f.ident

\* from_cyphr.rs has_flatten
has_flatten(f) == f.flatten

\* from_cyphr.rs expand: the syntactic test of the first path segment
first_segment(t) == IF t.k = "Option" THEN t.seg ELSE t.k

is_option(t) == first_segment(t) = "Option"

(***************************************************************************)
(* value.rs: the FromCyphrValue implementations                            *)
(***************************************************************************)
RECURSIVE from_value(_, _), from_node(_, _), from_rel(_, _)

from_value_String(v) ==
    IF v.tag = "String"
    THEN Ok([h |-> "String", s |-> v.str])
    ELSE Err(type_mismatch("String", type_name(v), "String"))

from_value_bool(v) ==
    IF v.tag = "Boolean"
    THEN Ok([h |-> "bool", b |-> v.bool])
    ELSE Err(type_mismatch("Boolean", type_name(v), "bool"))

\* A faulty impl_from_val_num!: the arguments of type_mismatch in the wrong order
from_value_int_Swapped(t, v) ==
    IF v.tag = "Integer"
    THEN Ok(as_int(v.int, t))
    ELSE Err(type_mismatch(type_name(v), "Integer", t))

\* impl_from_val_num!($t, Integer)
from_value_int(t, v) ==
    IF v.tag = "Integer"
    THEN Ok(as_int(v.int, t))
    ELSE Err(type_mismatch("Integer", type_name(v), t))

\* impl_from_val_num!($t, Float)
from_value_float(t, v) ==
    IF v.tag = "Float"
    THEN Ok(as_float(v.float, t))
    ELSE Err(type_mismatch("Float", type_name(v), t))

RECURSIVE collect(_, _, _)
\* Iterator::collect into Result<Vec<T>, E>: the elements are converted from
\* the front; the first Err ends the iteration and is the result
collect(T, xs, acc) ==
    IF xs = << >>
    THEN Ok([h |-> "Vec", items |-> acc])
    ELSE LET r == from_value(T, Head(xs))
         IN  IF r.ok THEN collect(T, Tail(xs), Append(acc, r.val)) ELSE r

\* A faulty Vec<T>: every element is converted and the error of the last
\* failing one is returned
from_value_Vec_LastError(T, v) ==
    IF v.tag = "List"
    THEN LET rs == [i \in 1..Len(v.list) |-> from_value(T, v.list[i])]
             bad == {i \in 1..Len(rs) : ~rs[i].ok}
         IN  IF bad = {}
             THEN Ok([h |-> "Vec", items |-> [i \in 1..Len(rs) |-> rs[i].val]])
             ELSE rs[CHOOSE i \in bad : \A j \in bad : j <= i]
    ELSE Err(type_mismatch("List", type_name(v), "Vec<T>"))

from_value_Vec(T, v) ==
    IF v.tag = "List"
    THEN collect(T, v.list, << >>)
    ELSE Err(type_mismatch("List", type_name(v), "Vec<T>"))

\* A faulty Option<T>: the inner error is wrapped in a Context
from_value_Option_Wrapped(T, v) ==
    IF v.tag = "Null"
    THEN Ok([h |-> "None"])
    ELSE LET r == from_value(T, v)
         IN  IF r.ok THEN Ok([h |-> "Some", some |-> r.val])
             ELSE Err(with_context(r.err, "Option<T>"))

from_value_Option(T, v) ==
    IF v.tag = "Null"
    THEN Ok([h |-> "None"])
    ELSE LET r == from_value(T, v)
         IN  IF r.ok THEN Ok([h |-> "Some", some |-> r.val]) ELSE r

from_value_NodeWrapper(T, v) ==
    IF v.tag = "Node"
    THEN LET r == from_node(T, v)
         IN  IF r.ok THEN Ok([h |-> "NodeWrapper", inner |-> r.val]) ELSE r
    ELSE Err(type_mismatch("Node", type_name(v), get_label(T)))

from_value_RelationWrapper(T, v) ==
    IF v.tag = "Relation"
    THEN LET r == from_rel(T, v)
         IN  IF r.ok THEN Ok([h |-> "RelationWrapper", inner |-> r.val]) ELSE r
    ELSE Err(type_mismatch("Relationship", type_name(v), get_rel_meta(T)))

\* what a call that panics leaves in the place of its Result
Panic == [panic |-> TRUE]

\* Vec::pop: the last element, if there is one, and the rest
pop(xs) ==
    IF xs = << >>
    THEN [item |-> None, rest |-> xs]
    ELSE [item |-> Some(xs[Len(xs)]), rest |-> SubSeq(xs, 1, Len(xs) - 1)]

\* Option::unwrap
unwrap(o) == IF o = None THEN Panic ELSE o[1]

from_value_Tuple2(A, B, v) ==
    IF v.tag = "List" /\ Len(v.list) = 2
    THEN LET pb == pop(v.list)
             pa == pop(pb.rest)
             b == unwrap(pb.item)
             a == unwrap(pa.item)
         IN  IF b = Panic \/ a = Panic THEN Panic
             ELSE LET ra == from_value(A, a)
                  IN  IF ~ra.ok THEN ra
                      ELSE LET rb == from_value(B, b)
                           IN  IF ~rb.ok THEN rb
                               ELSE Ok([h |-> "Tuple", elems |-> <<ra.val, rb.val>>])
    ELSE Err(type_mismatch("List[2]", type_name(v), "tuple(A, B)"))

\* A faulty (A, B, C): the elements are popped into a, b, c in that order, so
\* the list is read back to front
from_value_Tuple3_Reversed(A, B, C, v) ==
    IF v.tag = "List" /\ Len(v.list) = 3
    THEN LET pa == pop(v.list)
             pb == pop(pa.rest)
             pc3 == pop(pb.rest)
             a == unwrap(pa.item)
             b == unwrap(pb.item)
             c == unwrap(pc3.item)
         IN  IF a = Panic \/ b = Panic \/ c = Panic THEN Panic
             ELSE LET ra == from_value(A, a)
                  IN  IF ~ra.ok THEN ra
                      ELSE LET rb == from_value(B, b)
                           IN  IF ~rb.ok THEN rb
                               ELSE LET rc == from_value(C, c)
                                    IN  IF ~rc.ok THEN rc
                                        ELSE Ok([h |-> "Tuple",
                                                 elems |-> <<ra.val, rb.val, rc.val>>])
    ELSE Err(type_mismatch("List[3]", type_name(v), "tuple(A, B, C)"))

\* A faulty (A, B, C): the match arm lacks the guard on the length, so a List
\* of any length is popped three times
from_value_Tuple3_Unguarded(A, B, C, v) ==
    IF v.tag = "List"
    THEN LET pc3 == pop(v.list)
             pb == pop(pc3.rest)
             pa == pop(pb.rest)
             c == unwrap(pc3.item)
             b == unwrap(pb.item)
             a == unwrap(pa.item)
         IN  IF c = Panic \/ b = Panic \/ a = Panic THEN Panic
             ELSE LET ra == from_value(A, a)
                  IN  IF ~ra.ok THEN ra
                      ELSE LET rb == from_value(B, b)
                           IN  IF ~rb.ok THEN rb
                               ELSE LET rc == from_value(C, c)
                                    IN  IF ~rc.ok THEN rc
                                        ELSE Ok([h |-> "Tuple",
                                                 elems |-> <<ra.val, rb.val, rc.val>>])
    ELSE Err(type_mismatch("List[3]", type_name(v), "tuple(A, B, C)"))

from_value_Tuple3(A, B, C, v) ==
    IF v.tag = "List" /\ Len(v.list) = 3
    THEN LET pc3 == pop(v.list)
             pb == pop(pc3.rest)
             pa == pop(pb.rest)
             c == unwrap(pc3.item)
             b == unwrap(pb.item)
             a == unwrap(pa.item)
         IN  IF c = Panic \/ b = Panic \/ a = Panic THEN Panic
             ELSE LET ra == from_value(A, a)
                  IN  IF ~ra.ok THEN ra
                      ELSE LET rb == from_value(B, b)
                           IN  IF ~rb.ok THEN rb
                               ELSE LET rc == from_value(C, c)
                                    IN  IF ~rc.ok THEN rc
                                        ELSE Ok([h |-> "Tuple",
                                                 elems |-> <<ra.val, rb.val, rc.val>>])
    ELSE Err(type_mismatch("List[3]", type_name(v), "tuple(A, B, C)"))

\* d.try_into().map_err(|e| CyphrError::Mapping(format!("<what>: {e}"))): the
\* driver's reinterpretation of a temporal value fails (fails = Some(message))
\* or yields the chrono value
try_into(v, what, h) ==
    IF v.fails # None
    THEN Err(Mapping(what \o ": " \o v.fails[1]))
    ELSE Ok([h |-> h, t |-> v.t])

from_value_NaiveDate(v) ==
    IF v.tag = "Date"
    THEN try_into(v, "BoltDate -> NaiveDate", "NaiveDate")
    ELSE Err(type_mismatch("Date", type_name(v), "NaiveDate"))

from_value_NaiveTime(v) ==
    IF v.tag = "LocalTime"
    THEN Ok([h |-> "NaiveTime", t |-> v.t])
    ELSE Err(type_mismatch("LocalTime", type_name(v), "NaiveTime"))

\* impl FromCyphrValue for (chrono::NaiveTime, chrono::FixedOffset)
from_value_TimeOffset(v) ==
    IF v.tag = "Time"
    THEN Ok([h |-> "(NaiveTime, FixedOffset)", t |-> v.t])
    ELSE Err(type_mismatch("Time", type_name(v), "(NaiveTime, FixedOffset)"))

from_value_NaiveDateTime(v) ==
    IF v.tag = "LocalDateTime"
    THEN try_into(v, "BoltLocalDateTime -> NaiveDateTime", "NaiveDateTime")
    ELSE Err(type_mismatch("LocalDateTime", type_name(v), "NaiveDateTime"))

\* A faulty DateTime<FixedOffset>: the arm for DateTimeZoneId is missing
from_value_DateTime_FixedOnly(v) ==
    IF v.tag = "DateTime"
    THEN try_into(v, "BoltDateTime -> DateTime<FixedOffset>", "DateTime<FixedOffset>")
    ELSE Err(type_mismatch("DateTime", type_name(v), "DateTime<FixedOffset>"))

from_value_DateTime(v) ==
    CASE v.tag = "DateTime" ->
            try_into(v, "BoltDateTime -> DateTime<FixedOffset>", "DateTime<FixedOffset>")
      [] v.tag = "DateTimeZoneId" ->
            try_into(v, "BoltDateTimeZoneId -> DateTime<FixedOffset>", "DateTime<FixedOffset>")
      [] OTHER -> Err(type_mismatch("DateTime", type_name(v), "DateTime<FixedOffset>"))

from_value_Duration(v) ==
    IF v.tag = "Duration"
    THEN Ok([h |-> "std::time::Duration", t |-> v.t])
    ELSE Err(type_mismatch("Duration", type_name(v), "std::time::Duration"))

from_value_Point2D(v) ==
    IF v.tag = "Point2D"
    THEN Ok([h |-> "Point2D", sr_id |-> v.sr_id, x |-> v.x, y |-> v.y])
    ELSE Err(type_mismatch("Point2D", type_name(v), "Point2D"))

from_value_Point3D(v) ==
    IF v.tag = "Point3D"
    THEN Ok([h |-> "Point3D", sr_id |-> v.sr_id, x |-> v.x, y |-> v.y, z |-> v.z])
    ELSE Err(type_mismatch("Point3D", type_name(v), "Point3D"))

from_value_CyphrBytes(v) ==
    IF v.tag = "Bytes"
    THEN Ok([h |-> "CyphrBytes", bytes |-> v.bytes])
    ELSE Err(type_mismatch("Bytes", type_name(v), "CyphrBytes"))

RECURSIVE path_nodes_Reversed(_, _, _)
\* A faulty node loop: every decoded node is put in front of the earlier ones
path_nodes_Reversed(N, ns, acc) ==
    IF ns = << >>
    THEN Ok(acc)
    ELSE LET r == from_node(N, Head(ns))
         IN  IF r.ok THEN path_nodes_Reversed(N, Tail(ns), <<r.val>> \o acc) ELSE r

RECURSIVE path_nodes(_, _, _)
\* the loop `for n in &bolt_nodes { nodes.push(N::from_node(n)?); }`
path_nodes(N, ns, acc) ==
    IF ns = << >>
    THEN Ok(acc)
    ELSE LET r == from_node(N, Head(ns))
         IN  IF r.ok THEN path_nodes(N, Tail(ns), Append(acc, r.val)) ELSE r

from_value_CyphrPath(N, v) ==
    IF v.tag = "Path"
    THEN LET r == path_nodes(N, v.nodes, << >>)
         IN  IF r.ok
             THEN Ok([h |-> "CyphrPath", nodes |-> r.val, rels |-> v.rels,
                      indices |-> [i \in 1..Len(v.indices) |-> v.indices[i].int]])
             ELSE r
    ELSE Err(type_mismatch("Path", type_name(v), "CyphrPath"))

\* BoltString's Display, which `k.to_string()` goes through: the text it holds
to_string(k) == k.value

RECURSIVE map_entries_Skip(_, _, _)
\* A faulty HashMap<String, V>: an entry that does not convert is left out
map_entries_Skip(V, es, out) ==
    IF es = << >>
    THEN Ok([h |-> "HashMap", map |-> out])
    ELSE LET r == from_value(V, Head(es).v)
         IN  IF r.ok
             THEN map_entries_Skip(V, Tail(es),
                      [k \in DOMAIN out \cup {to_string(Head(es).k)} |->
                          IF k = to_string(Head(es).k) THEN r.val ELSE out[k]])
             ELSE map_entries_Skip(V, Tail(es), out)

RECURSIVE map_entries(_, _, _)
\* the loop `for (k, v) in m.value { out.insert(k.to_string(), V::from_value(v)?); }`
\* over the entries in the order this HashMap yields them
map_entries(V, es, out) ==
    IF es = << >>
    THEN Ok([h |-> "HashMap", map |-> out])
    ELSE LET r == from_value(V, Head(es).v)
         IN  IF r.ok
             THEN map_entries(V, Tail(es),
                      [k \in DOMAIN out \cup {to_string(Head(es).k)} |->
                          IF k = to_string(Head(es).k) THEN r.val ELSE out[k]])
             ELSE r

\* A Map value carries its entries in the iteration order of its HashMap,
\* which the hasher's random state fixes per map, not the contents.
from_value_HashMap(V, v) ==
    IF v.tag = "Map"
    THEN map_entries(V, v.entries, << >>)
    ELSE Err(type_mismatch("Map", type_name(v), "HashMap<String, V>"))

\* A faulty generated impl: the mismatch names the struct, not its label
from_value_Node_StructName(T, v) ==
    IF v.tag = "Node"
    THEN from_node(T, v)
    ELSE Err(type_mismatch("Node", type_name(v), T.ident))

\* node.rs expand: the generated impl FromCyphrValue of a #[derive(CyphrNode)] struct
from_value_Node(T, v) ==
    IF v.tag = "Node"
    THEN from_node(T, v)
    ELSE Err(type_mismatch("Node", type_name(v), get_label(T)))

\* relation.rs expand: the generated impl FromCyphrValue of a #[derive(CyphrRelation)] struct
from_value_Relation(T, v) ==
    IF v.tag = "Relation"
    THEN from_rel(T, v)
    ELSE Err(type_mismatch("Relationship", type_name(v), get_rel_meta(T)))

\* <T as FromCyphrValue>::from_value(v): the implementation the type selects
from_value(T, v) ==
    CASE T.k = "String" -> from_value_String(v)
      [] T.k = "bool" -> from_value_bool(v)
      [] T.k \in IntTypes -> from_value_int(T.k, v)
      [] T.k \in FloatTypes -> from_value_float(T.k, v)
      [] T.k = "Vec" -> from_value_Vec(T.of, v)
      [] T.k = "Option" -> from_value_Option(T.of, v)
      [] T.k = "NodeWrapper" -> from_value_NodeWrapper(T.decl, v)
      [] T.k = "RelationWrapper" -> from_value_RelationWrapper(T.decl, v)
      [] T.k = "Tuple2" -> from_value_Tuple2(T.a, T.b, v)
      [] T.k = "Tuple3" -> from_value_Tuple3(T.a, T.b, T.c, v)
      [] T.k = "NaiveDate" -> from_value_NaiveDate(v)
      [] T.k = "NaiveTime" -> from_value_NaiveTime(v)
      [] T.k = "TimeOffset" -> from_value_TimeOffset(v)
      [] T.k = "NaiveDateTime" -> from_value_NaiveDateTime(v)
      [] T.k = "DateTime" -> from_value_DateTime(v)
      [] T.k = "Duration" -> from_value_Duration(v)
      [] T.k = "Point2D" -> from_value_Point2D(v)
      [] T.k = "Point3D" -> from_value_Point3D(v)
      [] T.k = "CyphrBytes" -> from_value_CyphrBytes(v)
      [] T.k = "CyphrPath" -> from_value_CyphrPath(T.decl, v)
      [] T.k = "HashMap" -> from_value_HashMap(T.of, v)
      [] T.k = "Node" -> from_value_Node(T.decl, v)
      [] T.k = "Relation" -> from_value_Relation(T.decl, v)

(***************************************************************************)
(* traits.rs, value.rs: the IntoCyphrValue implementations                 *)
(***************************************************************************)
into_value_Point2D(p) ==
    [tag |-> "Point2D", sr_id |-> p.sr_id, x |-> p.x, y |-> p.y]

\* A faulty encoding of a Point3D: y and z change places
into_value_Point3D_Swapped(p) ==
    [tag |-> "Point3D", sr_id |-> p.sr_id, x |-> p.x, y |-> p.z, z |-> p.y]

into_value_Point3D(p) ==
    [tag |-> "Point3D", sr_id |-> p.sr_id, x |-> p.x, y |-> p.y, z |-> p.z]

into_value_CyphrBytes(b) == [tag |-> "Bytes", bytes |-> b.bytes]

\* impl<T: Into<Value>> IntoCyphrValue for T, for the types the trait's
\* documentation names: String, i64, f64, bool
into_value_Into(x) ==
    CASE x.h = "String" -> [tag |-> "String", str |-> x.s]
      [] x.h = "bool" -> [tag |-> "Boolean", bool |-> x.b]
      [] x.h = "int" -> [tag |-> "Integer", int |-> x.rep]
      [] x.h = "float" -> [tag |-> "Float", float |-> [m |-> x.m, lo |-> x.lo]]

\* the types IntoCyphrValue is modelled for
Encodable == {"String", "i64", "f64", "bool", "Point2D", "Point3D", "CyphrBytes"}

\* IntoCyphrValue::into_value(x): the implementation the type of x selects
into_value(x) ==
    CASE x.h = "Point2D" -> into_value_Point2D(x)
      [] x.h = "Point3D" -> into_value_Point3D(x)
      [] x.h = "CyphrBytes" -> into_value_CyphrBytes(x)
      [] OTHER -> into_value_Into(x)

(***************************************************************************)
(* node.rs, relation.rs: the generated from_node / from_rel                *)
(***************************************************************************)
\* A faulty from_node initialiser: the struct's own name stands where the
\* resolved label belongs
node_init_StructName(a, f, node) ==
    LET got == node_prop(node, prop_key(f))
    IN  IF got = None
        THEN Err(missing_property(prop_key(f), a.ident))
        ELSE map_err_with_context(from_value(f.ty, got[1]),
                 a.ident \o "::" \o f.ident \o " (prop '" \o prop_key(f) \o "')")

\* one field initialiser of the generated from_node
node_init(a, f, node) ==
    LET got == node_prop(node, prop_key(f))
    IN  IF got = None
        THEN Err(missing_property(prop_key(f), get_label(a)))
        ELSE map_err_with_context(from_value(f.ty, got[1]),
                 get_label(a) \o "::" \o f.ident \o " (prop '" \o prop_key(f) \o "')")

\* one field initialiser of the generated from_rel
rel_init(a, f, rel) ==
    LET got == rel_prop(rel, prop_key(f))
    IN  IF got = None
        THEN Err(missing_property(prop_key(f), get_rel_meta(a)))
        ELSE map_err_with_context(from_value(f.ty, got[1]),
                 get_rel_meta(a) \o "::" \o f.ident \o " (prop '" \o prop_key(f) \o "')")

RECURSIVE node_inits(_, _, _, _), rel_inits(_, _, _, _)
\* Ok(Self { #(#inits,)* }): the initialisers run in declaration order and the
\* first `?` that meets an Err returns it
node_inits(a, fs, node, acc) ==
    IF fs = << >>
    THEN Ok([h |-> "Struct", name |-> a.ident, fields |-> acc])
    ELSE LET r == node_init(a, Head(fs), node)
         IN  IF r.ok
             THEN node_inits(a, Tail(fs), node,
                      [n \in DOMAIN acc \cup {Head(fs).ident} |->
                          IF n = Head(fs).ident THEN r.val ELSE acc[n]])
             ELSE r

rel_inits(a, fs, rel, acc) ==
    IF fs = << >>
    THEN Ok([h |-> "Struct", name |-> a.ident, fields |-> acc])
    ELSE LET r == rel_init(a, Head(fs), rel)
         IN  IF r.ok
             THEN rel_inits(a, Tail(fs), rel,
                      [n \in DOMAIN acc \cup {Head(fs).ident} |->
                          IF n = Head(fs).ident THEN r.val ELSE acc[n]])
             ELSE r

from_node(a, node) == node_inits(a, a.fields, node, << >>)

from_rel(a, rel) == rel_inits(a, a.fields, rel, << >>)

(***************************************************************************)
(* from_cyphr.rs: the generated from_record                                *)
(***************************************************************************)
RECURSIVE from_record(_, _)

\* A faulty flatten field: the inner error is wrapped in a Context naming the
\* field, as the errors of the other fields are
flatten_init_Wrapped(f, rec) ==
    map_err_with_context(from_record(f.ty.decl, rec), f.ident)

\* #ident: <#ty as FromCyphr>::from_record(record)?
flatten_init(f, rec) == from_record(f.ty.decl, rec)

\* the initialiser of a field whose type the macro takes for an Option
option_init(a, f, rec) ==
    LET got == get_value(rec, f.ident)
    IN  IF got = None
        THEN Ok([h |-> "None"])
        ELSE map_err_with_context(from_value(f.ty, got[1]), a.ident \o "::" \o f.ident)

\* A faulty required field: a column holding Null is taken for a missing one
required_init_NullAsMissing(a, f, rec) ==
    LET got == get_value(rec, f.ident)
    IN  IF got = None \/ got = Some([tag |-> "Null"])
        THEN Err(missing_field(f.ident, a.ident))
        ELSE map_err_with_context(from_value(f.ty, got[1]), a.ident \o "::" \o f.ident)

\* the initialiser of every other field
required_init(a, f, rec) ==
    LET got == get_value(rec, f.ident)
    IN  IF got = None
        THEN Err(missing_field(f.ident, a.ident))
        ELSE map_err_with_context(from_value(f.ty, got[1]), a.ident \o "::" \o f.ident)

\* the strategy the loop of expand picks for a field
strategy(f) ==
    IF has_flatten(f) THEN "flatten"
    ELSE IF is_option(f.ty) THEN "option"
    ELSE "required"

record_init(a, f, rec) ==
    CASE strategy(f) = "flatten" -> flatten_init(f, rec)
      [] strategy(f) = "option" -> option_init(a, f, rec)
      [] strategy(f) = "required" -> required_init(a, f, rec)

\* A faulty from_record: every initialiser runs and the error of the last
\* failing field is returned
record_inits_LastError(a, fs, rec, acc) ==
    LET rs == [i \in 1..Len(fs) |-> record_init(a, fs[i], rec)]
        bad == {i \in 1..Len(fs) : ~rs[i].ok}
    IN  IF bad = {}
        THEN Ok([h |-> "Struct", name |-> a.ident,
                 fields |-> [n \in {fs[i].ident : i \in 1..Len(fs)} |->
                                rs[CHOOSE i \in 1..Len(fs) : fs[i].ident = n].val]])
        ELSE rs[CHOOSE i \in bad : \A j \in bad : j <= i]

RECURSIVE record_inits(_, _, _, _)
\* Ok(Self { #(#inits,)* })
record_inits(a, fs, rec, acc) ==
    IF fs = << >>
    THEN Ok([h |-> "Struct", name |-> a.ident, fields |-> acc])
    ELSE LET r == record_init(a, Head(fs), rec)
         IN  IF r.ok
             THEN record_inits(a, Tail(fs), rec,
                      [n \in DOMAIN acc \cup {Head(fs).ident} |->
                          IF n = Head(fs).ident THEN r.val ELSE acc[n]])
             ELSE r

from_record(a, rec) == record_inits(a, a.fields, rec, << >>)

(***************************************************************************)
(* to_cyphr_params.rs: the generated to_params.  A field of the struct is  *)
(*   [ident, ty, prop, skip, id]   prop: None or Some(str); skip, id: the  *)
(* field carries #[cyphr(skip)], #[cyphr(id)]                              *)
(***************************************************************************)
\* A faulty parse_field: only skip leaves a field out, id does not
parse_field_IdKept(f) ==
    [ident |-> f.ident,
     prop_key |-> IF f.prop # None THEN f.prop[1] ELSE f.ident,
     skip |-> f.skip]

parse_field(f) ==
    [ident |-> f.ident,
     prop_key |-> IF f.prop # None THEN f.prop[1] ELSE f.ident,
     skip |-> f.skip \/ f.id]

\* A faulty insert: a key the map already holds keeps its value
insert_KeepFirst(map, k, v) ==
    [x \in DOMAIN map \cup {k} |-> IF x \in DOMAIN map THEN map[x] ELSE v]

\* HashMap::insert: the value replaces the one the key held
insert(map, k, v) == [x \in DOMAIN map \cup {k} |-> IF x = k THEN v ELSE map[x]]

RECURSIVE inserts(_, _, _)
\* #(#inserts)*: one map.insert(key, into_value(self.ident)) for every field
\* that is not skipped, in declaration order
inserts(fs, s, map) ==
    IF fs = << >>
    THEN map
    ELSE LET info == parse_field(Head(fs))
         IN  IF info.skip
             THEN inserts(Tail(fs), s, map)
             ELSE inserts(Tail(fs), s, insert(map, info.prop_key, into_value(s[info.ident])))

to_params(a, s) == [h |-> "HashMap", map |-> inserts(a.fields, s, << >>)]

(***************************************************************************)
(* cypher_query.rs: the bindings cypher_query! generates.  A token stream  *)
(* is a sequence of token trees: Punct(ch), Ident(name), or Group(stream), *)
(* a delimited group that holds a token stream of its own.                 *)
(***************************************************************************)
Punct(ch) == [t |-> "Punct", ch |-> ch]
Ident(name) == [t |-> "Ident", name |-> name]
Group(s) == [t |-> "Group", stream |-> s]

RECURSIVE scan_params(_, _, _), scan_params_Shallow(_, _, _)

\* A faulty scan_params: the tokens inside a group are not scanned
scan_params_Shallow(s, params, seen) ==
    IF s = << >>
    THEN [params |-> params, seen |-> seen]
    ELSE LET tok == Head(s)
         IN  IF tok.t = "Punct" /\ tok.ch = "$"
             THEN IF Len(s) > 1 /\ s[2].t = "Ident"
                  THEN scan_params_Shallow(Tail(Tail(s)),
                           IF s[2].name \notin seen THEN Append(params, s[2]) ELSE params,
                           seen \cup {s[2].name})
                  ELSE scan_params_Shallow(Tail(s), params, seen)
             ELSE scan_params_Shallow(Tail(s), params, seen)

\* scan_params(stream, &mut params, &mut seen): s is tokens[i..], the part of
\* the stream the loop `while i < tokens.len()` has still to look at; the
\* result is what params and seen hold when the loop ends.
\*   `$` followed by an identifier : seen.insert(name) tells whether the name
\*                                   is new, only then it is pushed; i += 2
\*   any other `$`                 : i += 1
\*   a group                       : scan_params(g.stream(), params, seen); i += 1
\*   anything else                 : i += 1
scan_params(s, params, seen) ==
    IF s = << >>
    THEN [params |-> params, seen |-> seen]
    ELSE LET tok == Head(s)
         IN  IF tok.t = "Punct" /\ tok.ch = "$"
             THEN IF Len(s) > 1 /\ s[2].t = "Ident"
                  THEN scan_params(Tail(Tail(s)),
                           IF s[2].name \notin seen THEN Append(params, s[2]) ELSE params,
                           seen \cup {s[2].name})
                  ELSE scan_params(Tail(s), params, seen)
             ELSE IF tok.t = "Group"
                  THEN LET g == scan_params(tok.stream, params, seen)
                       IN  scan_params(Tail(s), g.params, g.seen)
                  ELSE scan_params(Tail(s), params, seen)

\* one generated call `.param(#name, #ident)`, name being ident.to_string()
param_call(ident) == [name |-> ident.name, ident |-> ident]

\* expand(input): the calls chained on CyphrQuery::new(..), in the order of
\* params.  (The normalised query text is a string the bindings do not depend
\* on; it is not part of the result here.)
expand(input) ==
    LET scanned == scan_params(input, << >>, {})
    IN  [param_calls |-> [i \in 1..Len(scanned.params) |-> param_call(scanned.params[i])]]

(***************************************************************************)
(* query.rs, stream.rs: running a query.  The backend is the record        *)
(* [execute |-> r], r being what Graph::execute / Txn::execute returns:    *)
(* Err(e), or Ok of the items the row stream delivers, each of them        *)
(* Ok(row) or Err(e).  A row stream is [items |-> the items it has still   *)
(* to deliver, polled |-> the number of times it was asked for an item].   *)
(***************************************************************************)
\* `let v = x;` followed by f(v): x is computed once and f sees its value
let(x, f(_)) == CHOOSE y \in {f(v) : v \in {x}} : TRUE

\* graph.execute(query).await, txn.execute(query).await
execute(g) ==
    IF g.execute.ok THEN Ok([items |-> g.execute.val, polled |-> 0]) ELSE g.execute

\* StreamExt::next on detached.into_stream().into_stream(): one request to
\* the backend, answered by the item that comes next or by None
inner_next(s) ==
    [stream |-> [items |-> IF s.items = << >> THEN << >> ELSE Tail(s.items),
                 polled |-> s.polled + 1],
     item |-> IF s.items = << >> THEN None ELSE Some(Head(s.items))]

\* RowStream::next: the same request, answered by a Result<Option<Row>, Error>
row_next(s) ==
    let(inner_next(s), LAMBDA p :
        [stream |-> p.stream,
         item |-> IF p.item = None THEN Ok(None)
                  ELSE IF p.item[1].ok THEN Ok(Some(p.item[1].val))
                  ELSE p.item[1]])

\* A faulty fetch_one_in: it reports an empty result under fetch_one's name
fetch_one_in_Name(T, txn) ==
    let(execute(txn), LAMBDA ex :
        IF ~ex.ok
        THEN [ret |-> Err(Neo4j(ex.err)), stream |-> Idle]
        ELSE let(row_next(ex.val), LAMBDA n :
                 [ret |-> IF ~n.item.ok THEN Err(Neo4j(n.item.err))
                          ELSE IF n.item.val = None
                               THEN Err(missing_field("row", "fetch_one"))
                               ELSE from_record(T, n.item.val[1]),
                  stream |-> n.stream]))

\* CyphrQuery::fetch_one::<T>(graph): ret is what the call returns, stream the
\* row stream as the call leaves it (Idle when execute gave none).  `?` turns
\* a neo4rs::Error into CyphrError::Neo4j.
fetch_one(T, g) ==
    let(execute(g), LAMBDA ex :
        IF ~ex.ok
        THEN [ret |-> Err(Neo4j(ex.err)), stream |-> Idle]
        ELSE let(row_next(ex.val), LAMBDA n :
                 [ret |-> IF ~n.item.ok THEN Err(Neo4j(n.item.err))
                          ELSE IF n.item.val = None
                               THEN Err(missing_field("row", "fetch_one"))
                               ELSE from_record(T, n.item.val[1]),
                  stream |-> n.stream]))

\* CyphrQuery::fetch_one_in::<T>(txn)
fetch_one_in(T, txn) ==
    let(execute(txn), LAMBDA ex :
        IF ~ex.ok
        THEN [ret |-> Err(Neo4j(ex.err)), stream |-> Idle]
        ELSE let(row_next(ex.val), LAMBDA n :
                 [ret |-> IF ~n.item.ok THEN Err(Neo4j(n.item.err))
                          ELSE IF n.item.val = None
                               THEN Err(missing_field("row", "fetch_one_in"))
                               ELSE from_record(T, n.item.val[1]),
                  stream |-> n.stream]))

RECURSIVE while_let_Skip(_, _, _)
\* A faulty loop: a row that fails to convert is left out and the loop goes on
while_let_Skip(T, s, out) ==
    let(row_next(s), LAMBDA n :
        IF ~n.item.ok
        THEN [ret |-> Err(Neo4j(n.item.err)), stream |-> n.stream]
        ELSE IF n.item.val = None
             THEN [ret |-> Ok([h |-> "Vec", items |-> out]), stream |-> n.stream]
             ELSE let(from_record(T, n.item.val[1]), LAMBDA r :
                      while_let_Skip(T, n.stream,
                                     IF r.ok THEN Append(out, r.val) ELSE out)))

RECURSIVE while_let(_, _, _)
\* while let Some(row) = stream.next().await? { out.push(T::from_record(&row)?); }
\* followed by Ok(out)
while_let(T, s, out) ==
    let(row_next(s), LAMBDA n :
        IF ~n.item.ok
        THEN [ret |-> Err(Neo4j(n.item.err)), stream |-> n.stream]
        ELSE IF n.item.val = None
             THEN [ret |-> Ok([h |-> "Vec", items |-> out]), stream |-> n.stream]
             ELSE let(from_record(T, n.item.val[1]), LAMBDA r :
                      IF ~r.ok
                      THEN [ret |-> r, stream |-> n.stream]
                      ELSE while_let(T, n.stream, Append(out, r.val))))

\* A faulty fetch_all: rows that fail to convert are skipped
fetch_all_Skip(T, g) ==
    let(execute(g), LAMBDA ex :
        IF ~ex.ok
        THEN [ret |-> Err(Neo4j(ex.err)), stream |-> Idle]
        ELSE while_let_Skip(T, ex.val, << >>))

\* CyphrQuery::fetch_all::<T>(graph)
fetch_all(T, g) ==
    let(execute(g), LAMBDA ex :
        IF ~ex.ok
        THEN [ret |-> Err(Neo4j(ex.err)), stream |-> Idle]
        ELSE while_let(T, ex.val, << >>))

\* CyphrQuery::fetch_all_in::<T>(txn): the loop is fetch_all's, word for word
fetch_all_in(T, txn) ==
    let(execute(txn), LAMBDA ex :
        IF ~ex.ok
        THEN [ret |-> Err(Neo4j(ex.err)), stream |-> Idle]
        ELSE while_let(T, ex.val, << >>))

\* CyphrQuery::fetch_stream::<T>(graph): the CyphrStream owns the row stream
fetch_stream(g) ==
    let(execute(g), LAMBDA ex :
        IF ~ex.ok
        THEN [ret |-> Err(Neo4j(ex.err)), stream |-> Idle]
        ELSE [ret |-> Ok([h |-> "CyphrStream"]), stream |-> ex.val])

\* what next makes of the item the inner stream answered with
\*   None => None, Some(Err(e)) => Some(Err(Neo4j(e))),
\*   Some(Ok(row)) => Some(T::from_record(&row))
mapped(T, item) ==
    IF item = None THEN None
    ELSE IF ~item[1].ok THEN Some(Err(Neo4j(item[1].err)))
    ELSE Some(from_record(T, item[1].val))

\* A faulty next: a row that fails to convert is not reported, the call asks
\* for the item after it
next_SkipFailed(T, s) ==
    let(inner_next(s.inner), LAMBDA n :
        let(mapped(T, n.item), LAMBDA ret :
            IF ret # None /\ n.item[1].ok /\ ~ret[1].ok
            THEN let(inner_next(n.stream), LAMBDA m :
                     [self |-> [inner |-> m.stream], ret |-> mapped(T, m.item)])
            ELSE [self |-> [inner |-> n.stream], ret |-> ret]))

\* A faulty next: once an item has failed the stream is over
next_Fused(T, s) ==
    let(inner_next(s.inner), LAMBDA n :
        let(mapped(T, n.item), LAMBDA ret :
            [self |-> [inner |-> IF ret # None /\ ~ret[1].ok
                                 THEN [items |-> << >>, polled |-> n.stream.polled]
                                 ELSE n.stream],
             ret |-> ret]))

\* CyphrStream::<T>::next(&mut self): self is [inner |-> the row stream]; the
\* result holds self as the call leaves it and what the call returns
next(T, s) ==
    let(inner_next(s.inner), LAMBDA n :
        [self |-> [inner |-> n.stream], ret |-> mapped(T, n.item)])

(***************************************************************************)
(* Wire values and target types the conversions are run on                 *)
(***************************************************************************)
\* the longest List drawn
MaxLen == 3

Null == [tag |-> "Null"]
Boolean(b) == [tag |-> "Boolean", bool |-> b]
Integer(n) == [tag |-> "Integer", int |-> n]
Float(m, lo) == [tag |-> "Float", float |-> [m |-> m, lo |-> lo]]
String(s) == [tag |-> "String", str |-> s]
Bytes(bs) == [tag |-> "Bytes", bytes |-> bs]
List(xs) == [tag |-> "List", list |-> xs]
Map(es) == [tag |-> "Map", entries |-> es]
\* a key of a Map, and an entry
BoltString(s) == [value |-> s]
Entry(k, v) == [k |-> BoltString(k), v |-> v]
Node(labels, props) == [tag |-> "Node", labels |-> labels, props |-> props]
Relation(type, props) == [tag |-> "Relation", type |-> type, props |-> props]
UnboundedRelation(type, props) ==
    [tag |-> "UnboundedRelation", type |-> type, props |-> props]
\* BoltPath: three BoltLists, of Node, of UnboundedRelation and of Integer
Path(nodes, rels, indices) ==
    [tag |-> "Path", nodes |-> nodes, rels |-> rels,
     indices |-> [i \in 1..Len(indices) |-> Integer(indices[i])]]
Point2D(sr_id, x, y) == [tag |-> "Point2D", sr_id |-> sr_id, x |-> x, y |-> y]
Point3D(sr_id, x, y, z) ==
    [tag |-> "Point3D", sr_id |-> sr_id, x |-> x, y |-> y, z |-> z]
\* Duration, Date, Time, LocalTime, LocalDateTime, DateTime, DateTimeZoneId
Temporal(tag, t, fails) == [tag |-> tag, t |-> t, fails |-> fails]

SeqsUpTo(S, n) == UNION {[1..k -> S] : k \in 0..n}

\* types
Ty(k) == [k |-> k]
VecOf(T) == [k |-> "Vec", of |-> T]
OptionOf(T) == [k |-> "Option", seg |-> "Option", of |-> T]
StdOptionOf(T) == [k |-> "Option", seg |-> "std", of |-> T]
HashMapOf(V) == [k |-> "HashMap", of |-> V]
Tuple2Of(A, B) == [k |-> "Tuple2", a |-> A, b |-> B]
Tuple3Of(A, B, C) == [k |-> "Tuple3", a |-> A, b |-> B, c |-> C]
OfDecl(k, a) == [k |-> k, decl |-> a]

Field(ident, T) == [ident |-> ident, ty |-> T, flatten |-> FALSE, prop |-> None]
FieldProp(ident, T, key) == [ident |-> ident, ty |-> T, flatten |-> FALSE, prop |-> Some(key)]
FieldFlatten(ident, T) == [ident |-> ident, ty |-> T, flatten |-> TRUE, prop |-> None]

\* #[derive(CyphrNode)] struct User { id: i64, #[cyphr(prop = "full_name")] name: String }
User ==
    [ident |-> "User", label |-> None, type |-> None,
     fields |-> <<Field("id", Ty("i64")), FieldProp("name", Ty("String"), "full_name")>>]

\* #[derive(CyphrNode)] #[cyphr(label = "Person")] struct PersonNode { age: i64 }
PersonNode ==
    [ident |-> "PersonNode", label |-> Some("Person"), type |-> None,
     fields |-> <<Field("age", Ty("i64"))>>]

\* #[derive(CyphrRelation)] #[cyphr(type = "FOLLOWS")] struct Follows { since: i64 }
Follows ==
    [ident |-> "Follows", label |-> None, type |-> Some("FOLLOWS"),
     fields |-> <<Field("since", Ty("i64"))>>]

Bob == Node(<<"User">>, ("id" :> Integer(1) @@ "full_name" :> String("Bob")))
BadBob == Node(<<"User">>, ("id" :> String("x") @@ "full_name" :> String("Bob")))
Anon == Node(<<"User">>, ("id" :> Integer(2)))
Eve == Node(<<"User">>, ("id" :> Integer(3) @@ "full_name" :> String("Eve")))
Aged == Node(<<"Person">>, ("age" :> Integer(30)))
Since == Relation("FOLLOWS", ("since" :> Integer(2020)))
Knows == UnboundedRelation("KNOWS", << >>)
Likes == UnboundedRelation("LIKES", ("since" :> Integer(2020)))

IntPayloads ==
    {-1000000000, -70000, -300, -129, -1, 0, 1, 30, 127, 128, 255, 256, 65535, 65536,
     1000000000}

LeafValues ==
    {Null, Boolean(TRUE), Boolean(FALSE), String("Alice"),
     Float(1, "zero"), Float(1, "half"), Float(2, "half"), Float(2, "above"),
     Bytes(<<1, 2>>), Bytes(<< >>),
     Map(<<Entry("a", Integer(1)), Entry("b", String("x"))>>),
     Map(<<Entry("b", String("x")), Entry("a", Integer(1))>>),
     Map(<<Entry("a", Integer(1))>>), Map(<< >>),
     Bob, BadBob, Anon, Aged, Since, Relation("FOLLOWS", << >>), Knows,
     Path(<<Bob, Anon>>, <<Knows>>, <<1, 1>>),
     Path(<<Bob, BadBob, Anon>>, <<Knows, Knows>>, <<1, 1, -2, 2>>),
     Path(<<Bob>>, << >>, << >>),
     Path(<<Bob, Eve>>, <<Knows>>, <<1, 1>>),
     Path(<<Bob, Eve, Bob>>, <<Knows, Likes>>, <<1, 1, -2, 2>>),
     Path(<<Anon, BadBob>>, <<Knows>>, <<1, 1>>),
     Path(<<Eve, Bob>>, <<Knows>>, <<1>>),
     Point2D(4326, Float(1, "zero").float, Float(2, "half").float),
     Point2D(7203, Float(2, "half").float, Float(1, "zero").float),
     Point3D(9157, Float(3, "above").float, Float(3, "above").float, Float(1, "zero").float),
     Bytes(<<0, 255, 0>>),
     Point3D(4979, Float(1, "zero").float, Float(2, "half").float, Float(3, "above").float),
     Temporal("Duration", "PT1S", None),
     Temporal("Date", "2024-01-15", None),
     Temporal("Date", "+999999-01-01", Some("conversion error")),
     Temporal("Time", "10:00:00+01:00", None),
     Temporal("LocalTime", "10:00:00", None),
     Temporal("LocalDateTime", "2024-01-15T10:00:00", None),
     Temporal("LocalDateTime", "+999999-01-01T00:00:00", Some("conversion error")),
     Temporal("DateTime", "2024-01-15T10:00:00+01:00", None),
     Temporal("DateTime", "2024-01-15T10:00:00+99:00", Some("conversion error")),
     Temporal("DateTimeZoneId", "2024-01-15T10:00:00[Europe/Paris]", None),
     Temporal("DateTimeZoneId", "2024-01-15T10:00:00[Mars/Base]", Some("conversion error"))}
    \cup {Integer(n) : n \in IntPayloads}

\* the elements of the Lists drawn
ElemValues == {Null, Integer(1), Integer(300), String("a")}

ListValues ==
    {List(xs) : xs \in SeqsUpTo(ElemValues, MaxLen)}
    \cup {List(<<List(<<Integer(1)>>), List(<<Integer(2), Integer(3)>>)>>),
          List(<<List(<<Integer(1)>>), List(<<String("a"), Null>>), Null>>),
          List(<<Bob, BadBob>>)}

\* the keys and the values of the Maps drawn
MapKeys == {"a", "b"}
MapElems == {Null, Integer(1), String("a")}

\* a Map holds every key once; its entries come in any order
MapValues ==
    {Map(es) : es \in {fs \in SeqsUpTo({Entry(k, v) : k \in MapKeys, v \in MapElems},
                                        Cardinality(MapKeys)) :
                          \A i, j \in 1..Len(fs) : fs[i].k = fs[j].k => i = j}}

WireValues == LeafValues \cup ListValues \cup MapValues

LeafTypes ==
    {Ty(k) : k \in IntTypes \cup FloatTypes \cup
        {"String", "bool", "NaiveDate", "NaiveTime", "TimeOffset", "NaiveDateTime",
         "DateTime", "Duration", "Point2D", "Point3D", "CyphrBytes"}}

\* the component types of the Vec, tuple and HashMap targets drawn
ElemTypes == {Ty("i64"), Ty("u8"), Ty("String"), OptionOf(Ty("i64"))}

EntityTypes ==
    {OfDecl("Node", User), OfDecl("Node", PersonNode), OfDecl("NodeWrapper", User),
     OfDecl("NodeWrapper", PersonNode), OfDecl("Relation", Follows),
     OfDecl("RelationWrapper", Follows), OfDecl("CyphrPath", User)}

\* every target type but Option<T>
PlainTypes ==
    LeafTypes \cup EntityTypes
    \cup {VecOf(T) : T \in ElemTypes \cup {VecOf(Ty("i64")), OfDecl("Node", User)}}
    \cup {HashMapOf(T) : T \in ElemTypes}
    \cup {Tuple2Of(A, B) : A \in ElemTypes, B \in ElemTypes}
    \cup {Tuple3Of(A, B, C) : A \in ElemTypes, B \in ElemTypes, C \in ElemTypes}

OptionTypes ==
    {OptionOf(T) : T \in LeafTypes \cup EntityTypes}
    \cup {OptionOf(VecOf(Ty("i64"))), OptionOf(OptionOf(Ty("i64"))),
          StdOptionOf(Ty("i64")), OptionOf(Tuple2Of(Ty("i64"), Ty("String")))}

TargetTypes == PlainTypes \cup OptionTypes

(***************************************************************************)
(* A call of from_value                                                    *)
(***************************************************************************)
InitValue ==
    /\ value \in WireValues
    /\ ty \in TargetTypes
    /\ record = Idle /\ ast = Idle /\ entity = Idle
    /\ err = Idle /\ root = Idle /\ applied = << >>
    /\ self = Idle
    /\ result = NoResult
    /\ pc = "from_value"
    /\ tokens = << >> /\ graph = Idle /\ row_stream = Idle /\ returned = << >>

\* <T as FromCyphrValue>::from_value(value)
FromValue ==
    /\ pc = "from_value"
    /\ result' = from_value(ty, value)
    /\ pc' = "done"
    /\ UNCHANGED <<value, ty, record, ast, entity, self, err, root, applied>>
    /\ UNCHANGED <<tokens, graph, row_stream, returned>>

\* IntoCyphrValue::into_value(x), x being the value from_value returned
IntoValue ==
    /\ pc = "done"
    /\ value # Idle
    /\ result # Panic
    /\ result.ok
    /\ ty.k \in Encodable
    /\ value' = into_value(result.val)
    /\ pc' = "into_value"
    /\ UNCHANGED <<ty, record, ast, entity, self, err, root, applied, result>>
    /\ UNCHANGED <<tokens, graph, row_stream, returned>>

\* <T as FromCyphrValue>::from_value on the value into_value returned
FromValueAgain ==
    /\ pc = "into_value"
    /\ result' = from_value(ty, value)
    /\ pc' = "round_trip"
    /\ UNCHANGED <<value, ty, record, ast, entity, self, err, root, applied>>
    /\ UNCHANGED <<tokens, graph, row_stream, returned>>

NextValue == FromValue \/ IntoValue \/ FromValueAgain

SpecValue == InitValue /\ [][NextValue]_vars

(***************************************************************************)
(* A call of type_name                                                     *)
(***************************************************************************)
InitTypeName ==
    /\ value \in WireValues
    /\ ty = Idle /\ record = Idle /\ ast = Idle /\ entity = Idle
    /\ self = Idle
    /\ err = Idle /\ root = Idle /\ applied = << >>
    /\ tokens = << >> /\ graph = Idle /\ row_stream = Idle /\ returned = << >>
    /\ result = NoResult
    /\ pc = "type_name"

\* type_name(&value)
TypeName ==
    /\ pc = "type_name"
    /\ result' = [name |-> type_name(value)]
    /\ pc' = "named"
    /\ UNCHANGED <<value, ty, record, ast, entity, self, err, root, applied>>
    /\ UNCHANGED <<tokens, graph, row_stream, returned>>

NextTypeName == TypeName

SpecTypeName == InitTypeName /\ [][NextTypeName]_vars

(***************************************************************************)
(* A call of the from_record a #[derive(FromCyphr)] struct gets            *)
(***************************************************************************)
\* the most fields a FromCyphr struct drawn declares
MaxFields == 2

\* the field names of the structs drawn, in declaration order
RecordFieldNames == <<"name", "age", "u", "score">>

\* #[derive(FromCyphr)] struct InnerResult { name: String }
InnerResult ==
    [ident |-> "InnerResult", label |-> None, type |-> None,
     fields |-> <<Field("name", Ty("String"))>>]

\* #[derive(FromCyphr)]
\* struct MiddleResult { #[cyphr(flatten)] inner: InnerResult, age: Option<i64> }
MiddleResult ==
    [ident |-> "MiddleResult", label |-> None, type |-> None,
     fields |-> <<FieldFlatten("inner", OfDecl("Struct", InnerResult)),
                  Field("age", OptionOf(Ty("i64")))>>]

BadName == Node(<<"User">>, ("id" :> Integer(1) @@ "full_name" :> Integer(7)))

\* a column of the row other than the one named ident
OtherColumn(ident) == IF ident = RecordFieldNames[1] THEN RecordFieldNames[2]
                      ELSE RecordFieldNames[1]

\* the fields a struct drawn may declare under the name ident; a field may
\* carry #[cyphr(prop = "...")], which the derive accepts as it does on the
\* other derives
RecordFields(ident) ==
    {Field(ident, T) : T \in {Ty("String"), Ty("i64"), OptionOf(Ty("i64")),
                              StdOptionOf(Ty("i64")), OfDecl("Node", User)}}
    \cup {FieldFlatten(ident, OfDecl("Struct", D)) : D \in {InnerResult, MiddleResult}}
    \cup {FieldProp(ident, T, OtherColumn(ident)) : T \in {Ty("String"), Ty("i64")}}

RecordDecls ==
    {[ident |-> "UserRow", label |-> None, type |-> None, fields |-> fs] :
        fs \in {gs \in SeqsUpTo(UNION {RecordFields(RecordFieldNames[i]) : i \in 1..MaxFields},
                                MaxFields) :
                    /\ Len(gs) >= 1
                    /\ \A i \in 1..Len(gs) : gs[i].ident = RecordFieldNames[i]}}

RecordValues == {Null, Integer(30), String("Alice"), Bob, BadName}

\* a Row: some of the columns, each with a value
Records ==
    UNION {[ks -> RecordValues] :
              ks \in SUBSET {RecordFieldNames[i] : i \in 1..MaxFields}}

InitRecord ==
    /\ ast \in RecordDecls
    /\ record \in Records
    /\ value = Idle /\ ty = Idle /\ entity = Idle
    /\ err = Idle /\ root = Idle /\ applied = << >>
    /\ self = Idle
    /\ result = NoResult
    /\ pc = "from_record"
    /\ tokens = << >> /\ graph = Idle /\ row_stream = Idle /\ returned = << >>

\* <T as FromCyphr>::from_record(&record)
FromRecord ==
    /\ pc = "from_record"
    /\ result' = from_record(ast, record)
    /\ pc' = "done"
    /\ UNCHANGED <<value, ty, record, ast, entity, self, err, root, applied>>
    /\ UNCHANGED <<tokens, graph, row_stream, returned>>

NextRecord == FromRecord

SpecRecord == InitRecord /\ [][NextRecord]_vars

(***************************************************************************)
(* A call of an accessor of record.rs                                      *)
(***************************************************************************)
InitAccessor ==
    /\ record \in Records
    /\ value = Idle /\ ty = Idle /\ ast = Idle /\ entity = Idle
    /\ self = Idle
    /\ err = Idle /\ root = Idle /\ applied = << >>
    /\ result = NoResult
    /\ pc = "accessor"
    /\ tokens = << >> /\ graph = Idle /\ row_stream = Idle /\ returned = << >>

\* the column names the accessors are asked for
RecordKeys == {RecordFieldNames[i] : i \in 1..MaxFields}

\* cyphr_core::record::get_value(&record, key)
GetValue ==
    /\ pc = "accessor"
    /\ \E key \in RecordKeys : result' = [key |-> key, got |-> get_value(record, key)]
    /\ pc' = "get_value"
    /\ UNCHANGED <<value, ty, record, ast, entity, self, err, root, applied>>
    /\ UNCHANGED <<tokens, graph, row_stream, returned>>

\* cyphr_core::record::has_key(&record, key)
HasKey ==
    /\ pc = "accessor"
    /\ \E key \in RecordKeys : result' = [key |-> key, has |-> has_key(record, key)]
    /\ pc' = "has_key"
    /\ UNCHANGED <<value, ty, record, ast, entity, self, err, root, applied>>
    /\ UNCHANGED <<tokens, graph, row_stream, returned>>

NextAccessor == GetValue \/ HasKey

SpecAccessor == InitAccessor /\ [][NextAccessor]_vars

(***************************************************************************)
(* A call of the from_node / from_rel a derived struct gets                *)
(***************************************************************************)
\* the most fields a CyphrNode / CyphrRelation struct drawn declares
MaxProps == 2

\* the field names of the structs drawn, and the key each may be overridden to
PropFieldNames == <<"id", "name", "age">>
PropOverrides == <<"uid", "full_name", "years">>

EntityFields(i) ==
    {Field(PropFieldNames[i], T) : T \in {Ty("i64"), Ty("String")}}
    \cup {FieldProp(PropFieldNames[i], T, PropOverrides[i]) : T \in {Ty("i64"), Ty("String")}}

\* struct Account, bare or with #[cyphr(label = "User", type = "OWNS")]
EntityDecls ==
    {[ident |-> "Account", label |-> m[1], type |-> m[2], fields |-> fs] :
        m \in {<<None, None>>, <<Some("User"), Some("OWNS")>>},
        fs \in {gs \in SeqsUpTo(UNION {EntityFields(i) : i \in 1..MaxProps}, MaxProps) :
                    /\ Len(gs) >= 1
                    /\ \A i \in 1..Len(gs) : gs[i] \in EntityFields(i)}}

\* property bags: a field name holds nothing, an Integer or a String; an
\* override key holds nothing or an Integer
PropertyBags ==
    {[k \in {x \in DOMAIN named : named[x] # None} \cup {y \in DOMAIN over : over[y] # None} |->
         IF k \in DOMAIN named THEN named[k][1] ELSE over[k][1]] :
        named \in [{PropFieldNames[i] : i \in 1..MaxProps} ->
                      {None, Some(Integer(1)), Some(String("Bob"))}],
        over \in [{PropOverrides[i] : i \in 1..MaxProps} -> {None, Some(Integer(1))}]}

Entities ==
    {Node(<<"User">>, ps) : ps \in PropertyBags}
    \cup {Relation("OWNS", ps) : ps \in PropertyBags}

InitEntity ==
    /\ ast \in EntityDecls
    /\ entity \in Entities
    /\ value = Idle /\ ty = Idle /\ record = Idle
    /\ err = Idle /\ root = Idle /\ applied = << >>
    /\ self = Idle
    /\ result = NoResult
    /\ pc = "from_entity"
    /\ tokens = << >> /\ graph = Idle /\ row_stream = Idle /\ returned = << >>

\* <T as CyphrNode>::from_node(&node)
FromNode ==
    /\ pc = "from_entity"
    /\ entity.tag = "Node"
    /\ result' = from_node(ast, entity)
    /\ pc' = "done"
    /\ UNCHANGED <<value, ty, record, ast, entity, self, err, root, applied>>
    /\ UNCHANGED <<tokens, graph, row_stream, returned>>

\* <T as CyphrRelation>::from_rel(&rel)
FromRel ==
    /\ pc = "from_entity"
    /\ entity.tag = "Relation"
    /\ result' = from_rel(ast, entity)
    /\ pc' = "done"
    /\ UNCHANGED <<value, ty, record, ast, entity, self, err, root, applied>>
    /\ UNCHANGED <<tokens, graph, row_stream, returned>>

NextEntity == FromNode \/ FromRel

SpecEntity == InitEntity /\ [][NextEntity]_vars

(***************************************************************************)
(* Calls of with_context on one error                                      *)
(***************************************************************************)
\* the most Context layers put around an error
MaxCtx == 3

RootErrors ==
    {type_mismatch("Integer", "String", "i64"), missing_property("name", "User"),
     missing_field("age", "UserResult"), Mapping("BoltDate -> NaiveDate: conversion error"),
     Neo4j("connection reset")}

Labels == {"User::age (prop 'age')", "UserRow::u", "parsing User"}

InitError ==
    /\ root \in RootErrors
    /\ err = root
    /\ applied = << >>
    /\ value = Idle /\ ty = Idle /\ record = Idle /\ ast = Idle /\ entity = Idle
    /\ self = Idle
    /\ result = NoResult
    /\ pc = "with_context"
    /\ tokens = << >> /\ graph = Idle /\ row_stream = Idle /\ returned = << >>

\* err = err.with_context(ctx)
WithContext ==
    /\ pc = "with_context"
    /\ Len(applied) < MaxCtx
    /\ \E ctx \in Labels :
          /\ err' = with_context(err, ctx)
          /\ applied' = Append(applied, ctx)
    /\ UNCHANGED <<value, ty, record, ast, entity, self, root, result, pc>>
    /\ UNCHANGED <<tokens, graph, row_stream, returned>>

NextError == WithContext

SpecError == InitError /\ [][NextError]_vars

(***************************************************************************)
(* A call of the to_params a #[derive(ToCyphrParams)] struct gets          *)
(***************************************************************************)
\* the most fields a ToCyphrParams struct drawn declares
MaxParams == 3

\* the fields of the structs drawn, in declaration order, and their types
ParamFieldNames == <<"id", "name", "age", "pos", "flag">>
ParamFieldTypes == <<Ty("i64"), Ty("String"), Ty("i64"), Ty("Point2D"), Ty("bool")>>

\* the keys a prop attribute may name: the name of another field, or a new one
ParamOverrides == {"name", "user_name"}

ParamField(i, prop, skip, id) ==
    [ident |-> ParamFieldNames[i], ty |-> ParamFieldTypes[i], prop |-> prop,
     skip |-> skip, id |-> id]

\* a field is plain, #[cyphr(skip)] or #[cyphr(id)], with or without a prop
ParamFields(i) ==
    {ParamField(i, prop, mark = "skip", mark = "id") :
        prop \in {None} \cup {Some(k) : k \in ParamOverrides},
        mark \in {"plain", "skip", "id"}}

RECURSIVE ParamFieldSeqs(_)
\* the declarations of the first n fields
ParamFieldSeqs(n) ==
    IF n = 0 THEN {<< >>}
    ELSE {Append(gs, f) : gs \in ParamFieldSeqs(n - 1), f \in ParamFields(n)}

\* #[derive(ToCyphrParams)] struct CreateUser { .. }
ParamDecls == {[ident |-> "CreateUser", fields |-> fs] : fs \in ParamFieldSeqs(MaxParams)}

\* the values a field of the struct may hold
ParamValues(i) ==
    CASE ParamFieldTypes[i] = Ty("String") ->
            {[h |-> "String", s |-> "Bob"], [h |-> "String", s |-> "Alice"]}
      [] ParamFieldTypes[i] = Ty("i64") ->
            {[h |-> "int", int_ty |-> "i64", rep |-> 30, carry |-> 0],
             [h |-> "int", int_ty |-> "i64", rep |-> 999, carry |-> 0]}
      [] ParamFieldTypes[i] = Ty("Point2D") ->
            {[h |-> "Point2D", sr_id |-> 4326, x |-> [m |-> 1, lo |-> "zero"],
              y |-> [m |-> 2, lo |-> "half"]]}
      [] ParamFieldTypes[i] = Ty("bool") -> {[h |-> "bool", b |-> TRUE]}

\* a value of the struct: every field holds a value of its type
ParamStructs ==
    {s \in [{ParamFieldNames[i] : i \in 1..MaxParams} ->
                UNION {ParamValues(i) : i \in 1..MaxParams}] :
        \A i \in 1..MaxParams : s[ParamFieldNames[i]] \in ParamValues(i)}

InitParams ==
    /\ ast \in ParamDecls
    /\ self \in ParamStructs
    /\ value = Idle /\ ty = Idle /\ record = Idle /\ entity = Idle
    /\ err = Idle /\ root = Idle /\ applied = << >>
    /\ result = NoResult
    /\ pc = "to_params"
    /\ tokens = << >> /\ graph = Idle /\ row_stream = Idle /\ returned = << >>

\* <T as ToCyphrParams>::to_params(self)
ToParams ==
    /\ pc = "to_params"
    /\ result' = to_params(ast, self)
    /\ pc' = "done"
    /\ UNCHANGED <<value, ty, record, ast, entity, self, err, root, applied>>
    /\ UNCHANGED <<tokens, graph, row_stream, returned>>

NextParams == ToParams

SpecParams == InitParams /\ [][NextParams]_vars

(***************************************************************************)
(* An expansion of cypher_query!                                           *)
(***************************************************************************)
\* the longest token stream drawn, and the deepest nesting of groups in it
MaxTokens == 3
MaxDepth == 2

Dollar == Punct("$")

\* tokens that are not groups
LeafTokens == {Dollar, Ident("a"), Ident("b"), Punct(",")}

\* groups nested d deep: the innermost ones hold every stream of at most two
\* tokens that are `$` or identifiers, each further level wraps one more
\* delimiter around some of them and lets an identifier follow
RECURSIVE Groups(_)
Groups(d) ==
    IF d = 1
    THEN {Group(s) : s \in SeqsUpTo({Dollar, Ident("a"), Ident("b")}, 2)}
    ELSE {Group(<<g, Ident("b")>>) :
              g \in IF d = 2
                    THEN {Group(<<Dollar, Ident("b")>>), Group(<<Dollar>>)}
                    ELSE Groups(d - 1)}

TokenTrees == LeafTokens \cup UNION {Groups(d) : d \in 1..MaxDepth}

TokenStreams == SeqsUpTo(TokenTrees, MaxTokens)

InitQuery ==
    /\ tokens \in TokenStreams
    /\ value = Idle /\ ty = Idle /\ record = Idle /\ ast = Idle /\ entity = Idle
    /\ self = Idle
    /\ err = Idle /\ root = Idle /\ applied = << >>
    /\ graph = Idle /\ row_stream = Idle /\ returned = << >>
    /\ result = NoResult
    /\ pc = "cypher_query"

\* cypher_query! { tokens }
CypherQuery ==
    /\ pc = "cypher_query"
    /\ result' = expand(tokens)
    /\ pc' = "expanded"
    /\ UNCHANGED <<value, ty, record, ast, entity, self, err, root, applied>>
    /\ UNCHANGED <<tokens, graph, row_stream, returned>>

NextQuery == CypherQuery

SpecQuery == InitQuery /\ [][NextQuery]_vars

(***************************************************************************)
(* A query run through CyphrQuery's fetch methods or through a CyphrStream *)
(***************************************************************************)
\* the most items a backend drawn delivers
MaxRows == 3

\* #[derive(FromCyphr)] struct UserRow { name: String } and
\* #[derive(FromCyphr)] struct UserRow { name: String, age: Option<i64> }
FetchDecls ==
    {[ident |-> "UserRow", label |-> None, type |-> None, fields |-> fs] :
        fs \in {<<Field("name", Ty("String"))>>,
                <<Field("name", Ty("String")), Field("age", OptionOf(Ty("i64")))>>}}

\* two rows that convert, one whose name has the wrong type, one without name
FetchRows ==
    {("name" :> String("Alice")), ("name" :> String("Bob") @@ "age" :> Integer(30)),
     ("name" :> Integer(30)), ("age" :> Integer(30))}

\* what the backend delivers for one request: a row or a driver error
BackendItems == {Ok(r) : r \in FetchRows} \cup {Err("connection reset")}

Graphs ==
    {[execute |-> Err("connection refused")]}
    \cup {[execute |-> Ok(items)] : items \in SeqsUpTo(BackendItems, MaxRows)}

InitFetch ==
    /\ graph \in Graphs
    /\ ast \in FetchDecls
    /\ row_stream = Idle
    /\ returned = << >>
    /\ value = Idle /\ ty = Idle /\ record = Idle /\ entity = Idle
    /\ self = Idle
    /\ err = Idle /\ root = Idle /\ applied = << >>
    /\ tokens = << >>
    /\ result = NoResult
    /\ pc = "query"

\* query.fetch_one::<T>(&graph).await
FetchOne ==
    /\ pc = "query"
    /\ \E call \in {fetch_one(ast, graph)} :
           result' = call.ret /\ row_stream' = call.stream
    /\ pc' = "fetch_one"
    /\ UNCHANGED <<value, ty, record, ast, entity, self, err, root, applied>>
    /\ UNCHANGED <<tokens, graph, returned>>

\* query.fetch_one_in::<T>(&mut txn).await
FetchOneIn ==
    /\ pc = "query"
    /\ \E call \in {fetch_one_in(ast, graph)} :
           result' = call.ret /\ row_stream' = call.stream
    /\ pc' = "fetch_one_in"
    /\ UNCHANGED <<value, ty, record, ast, entity, self, err, root, applied>>
    /\ UNCHANGED <<tokens, graph, returned>>

\* query.fetch_all::<T>(&graph).await
FetchAll ==
    /\ pc = "query"
    /\ \E call \in {fetch_all(ast, graph)} :
           result' = call.ret /\ row_stream' = call.stream
    /\ pc' = "fetch_all"
    /\ UNCHANGED <<value, ty, record, ast, entity, self, err, root, applied>>
    /\ UNCHANGED <<tokens, graph, returned>>

\* query.fetch_all_in::<T>(&mut txn).await
FetchAllIn ==
    /\ pc = "query"
    /\ \E call \in {fetch_all_in(ast, graph)} :
           result' = call.ret /\ row_stream' = call.stream
    /\ pc' = "fetch_all_in"
    /\ UNCHANGED <<value, ty, record, ast, entity, self, err, root, applied>>
    /\ UNCHANGED <<tokens, graph, returned>>

\* query.fetch_stream::<T>(&graph).await
FetchStream ==
    /\ pc = "query"
    /\ \E call \in {fetch_stream(graph)} :
           /\ result' = call.ret
           /\ row_stream' = call.stream
           /\ pc' = IF call.ret.ok THEN "stream" ELSE "fetch_stream"
    /\ UNCHANGED <<value, ty, record, ast, entity, self, err, root, applied>>
    /\ UNCHANGED <<tokens, graph, returned>>

\* stream.next().await on the CyphrStream fetch_stream returned; the caller
\* stops calling once it has got None
StreamNext ==
    /\ pc = "stream"
    /\ \E n \in {next(ast, [inner |-> row_stream])} :
           /\ row_stream' = n.self.inner
           /\ returned' = Append(returned, n.ret)
           /\ pc' = IF n.ret = None THEN "exhausted" ELSE "stream"
    /\ UNCHANGED <<value, ty, record, ast, entity, self, err, root, applied>>
    /\ UNCHANGED <<tokens, graph, result>>

NextFetch == FetchOne \/ FetchOneIn \/ FetchAll \/ FetchAllIn \/ FetchStream \/ StreamNext

SpecFetch == InitFetch /\ [][NextFetch]_vars

(***************************************************************************)
(* Every call together                                                     *)
(***************************************************************************)
Init == InitValue \/ InitRecord \/ InitAccessor \/ InitEntity \/ InitError \/ InitParams
            \/ InitQuery \/ InitFetch \/ InitTypeName

Next == FromValue \/ IntoValue \/ FromValueAgain \/ FromRecord \/ GetValue \/ HasKey \/ FromNode \/ FromRel \/ WithContext
            \/ ToParams \/ CypherQuery \/ FetchOne \/ FetchOneIn \/ FetchAll \/ FetchAllIn
            \/ FetchStream \/ StreamNext \/ TypeName

Spec == Init /\ [][Next]_vars

(***************************************************************************)
(* Properties of from_value                                                *)
(***************************************************************************)
\* the variant a target type is documented to require (spec.md 4.2, 4.3)
RequiredVariant(T) ==
    CASE T.k = "String" -> "String"
      [] T.k = "bool" -> "Boolean"
      [] T.k \in IntTypes -> "Integer"
      [] T.k \in FloatTypes -> "Float"
      [] T.k \in {"Vec", "Tuple2", "Tuple3"} -> "List"
      [] T.k = "HashMap" -> "Map"
      [] T.k = "CyphrBytes" -> "Bytes"
      [] T.k \in {"Point2D", "Point3D", "Duration", "DateTime"} -> T.k
      [] T.k = "CyphrPath" -> "Path"
      [] T.k = "NaiveDate" -> "Date"
      [] T.k = "NaiveTime" -> "LocalTime"
      [] T.k = "TimeOffset" -> "Time"
      [] T.k = "NaiveDateTime" -> "LocalDateTime"
      [] T.k \in {"Node", "NodeWrapper"} -> "Node"
      [] T.k \in {"Relation", "RelationWrapper"} -> "Relation"

\* the variants a target type accepts
Accepts(T) ==
    IF T.k = "DateTime" THEN {"DateTime", "DateTimeZoneId"} ELSE {RequiredVariant(T)}

Arity(T) == IF T.k = "Tuple2" THEN 2 ELSE 3

Components(T) == IF T.k = "Tuple2" THEN <<T.a, T.b>> ELSE <<T.a, T.b, T.c>>

IsTuple(T) == T.k \in {"Tuple2", "Tuple3"}

IsMismatch(r, expected, got) ==
    /\ ~r.ok
    /\ r.err.kind = "TypeMismatch"
    /\ r.err.expected = expected
    /\ r.err.got = got

\* a from_value call on a non-optional target with a value of a variant the
\* target does not accept has returned
WrongVariantDone ==
    pc = "done" /\ ty \in PlainTypes /\ value.tag \notin Accepts(ty)

\* C1 as stated: on a value of a variant T does not accept, every non-optional
\* target returns TypeMismatch whose expected is the name of the variant T
\* requires and whose got is type_name of the value.
C1_AsStated ==
    WrongVariantDone =>
        IsMismatch(result, type_name([tag |-> RequiredVariant(ty)]), type_name(value))

\* C1 (amended): on a value of a variant T does not accept, every non-optional
\* target returns TypeMismatch whose got is type_name of the value and whose
\* expected is the name of the variant T requires, except that a tuple target of
\* arity N gives "List[N]"; never Ok and never another error kind.
C1_Mismatch ==
    WrongVariantDone =>
        IsMismatch(result,
            IF IsTuple(ty) THEN "List[" \o ToString(Arity(ty)) \o "]"
            ELSE type_name([tag |-> RequiredVariant(ty)]),
            type_name(value))

C1_Witness ==
    /\ pc = "done"
    /\ ty = Tuple2Of(Ty("i64"), Ty("String"))
    /\ value = Since
    /\ result = Err(type_mismatch("List[2]", "Relationship", "tuple(A, B)"))

\* C2: Option<T>::from_value(Null) is Ok(None); on a non-Null value it is
\* Ok(Some(x)) exactly when T::from_value is Ok(x) and the very same Err(e)
\* exactly when T::from_value is Err(e).
C2_Option ==
    (pc = "done" /\ ty.k = "Option") =>
        IF value.tag = "Null"
        THEN result = Ok([h |-> "None"])
        ELSE LET inner == from_value(ty.of, value)
             IN  IF inner.ok
                 THEN result = Ok([h |-> "Some", some |-> inner.val])
                 ELSE result = Err(inner.err)

C2_Witness ==
    /\ pc = "done"
    /\ ty = OptionOf(Ty("i64"))
    /\ value = String("Alice")
    /\ result = Err(type_mismatch("Integer", "String", "i64"))

\* the results of converting every element of a list on its own
Each(Ts, xs) == [i \in 1..Len(xs) |-> from_value(Ts[i], xs[i])]

Failing(rs) == {i \in 1..Len(rs) : ~rs[i].ok}

Lowest(S) == CHOOSE i \in S : \A j \in S : i <= j

\* C9: Vec<T>::from_value on a List returns Ok of the converted elements in the
\* same order when every element converts, and otherwise, unchanged, the error
\* of the failing element with the lowest index.
C9_Vec ==
    (pc = "done" /\ ty.k = "Vec" /\ value.tag = "List") =>
        LET rs == Each([i \in 1..Len(value.list) |-> ty.of], value.list)
        IN  IF Failing(rs) = {}
            THEN result = Ok([h |-> "Vec", items |-> [i \in 1..Len(rs) |-> rs[i].val]])
            ELSE result = rs[Lowest(Failing(rs))]

C9_Witness ==
    /\ pc = "done"
    /\ ty = VecOf(Ty("i64"))
    /\ value = List(<<Integer(1), Null, String("a")>>)
    /\ result = Err(type_mismatch("Integer", "Null", "i64"))

\* C10: a tuple target of arity N converts a List of exactly N elements
\* positionally, returning the leftmost failing component's error; a List of
\* another length or a value of another variant yields TypeMismatch with
\* expected "List[N]" and got the value's tag.
C10_Tuple ==
    (pc = "done" /\ IsTuple(ty)) =>
        IF value.tag = "List" /\ Len(value.list) = Arity(ty)
        THEN LET rs == Each(Components(ty), value.list)
             IN  IF Failing(rs) = {}
                 THEN result = Ok([h |-> "Tuple", elems |-> [i \in 1..Len(rs) |-> rs[i].val]])
                 ELSE result = rs[Lowest(Failing(rs))]
        ELSE IsMismatch(result, "List[" \o ToString(Arity(ty)) \o "]", type_name(value))

C10_Witness ==
    /\ pc = "done"
    /\ ty = Tuple3Of(Ty("i64"), Ty("String"), Ty("i64"))
    /\ value = List(<<Integer(1), Integer(300), String("a")>>)
    /\ result = Err(type_mismatch("String", "Integer", "String"))

\* the conversion of the value a Map holds under the key k
Converted(V, m, k) ==
    from_value(V, (CHOOSE e \in {m.entries[i] : i \in 1..Len(m.entries)} : e.k.value = k).v)

MapKeySet(m) == {m.entries[i].k.value : i \in 1..Len(m.entries)}

\* C11: HashMap<String, V>::from_value on a Map returns, when every entry
\* converts, Ok of a map with the same key set, each key holding the conversion
\* of its entry; when an entry fails it returns Err, the error being the
\* unmodified conversion error of one of the failing entries.
C11_HashMap ==
    (pc = "done" /\ ty.k = "HashMap" /\ value.tag = "Map") =>
        LET keys == MapKeySet(value)
            bad == {k \in keys : ~Converted(ty.of, value, k).ok}
        IN  IF bad = {}
            THEN result = Ok([h |-> "HashMap",
                              map |-> [k \in keys |-> Converted(ty.of, value, k).val]])
            ELSE \E k \in bad : result = Converted(ty.of, value, k)

C11_Witness ==
    /\ pc = "done"
    /\ ty = HashMapOf(Ty("i64"))
    /\ value = Map(<<Entry("b", String("a")), Entry("a", Null)>>)
    /\ result = Err(type_mismatch("Integer", "String", "i64"))

\* x and y leave the same remainder on division by 2^w.  Both lie within 32
\* bits, so for w of 32 and 64 that is equality.
SameModulo(x, y, w) == IF w <= 16 THEN (x - y) % (2 ^ w) = 0 ELSE x = y

\* rep + carry * 2^w lies in the range of the integer type t of width w
InRangeOf(rep, carry, t) ==
    IF Bits(t) <= 16
    THEN /\ carry = 0
         /\ IF Signed(t)
            THEN -(2 ^ (Bits(t) - 1)) <= rep /\ rep < 2 ^ (Bits(t) - 1)
            ELSE 0 <= rep /\ rep < 2 ^ Bits(t)
    ELSE IF Signed(t) THEN carry = 0
         ELSE (carry = 0 /\ rep >= 0) \/ (carry = 1 /\ rep < 0)

IntResult(n) == result.ok /\ result.val.carry = 0 /\ result.val.rep = n

\* C12: an integer target of width w converts every Integer value v to Ok, never
\* to an error; the result is the one number in the target's range that is
\* congruent to v modulo 2^w (255 -> u8 255, -300 -> i16 -300, 256 -> u8 0,
\* -1 -> u8 255).
C12_Narrowing ==
    (pc = "done" /\ ty.k \in IntTypes /\ value.tag = "Integer") =>
        /\ result.ok
        /\ result.val.h = "int"
        /\ result.val.int_ty = ty.k
        /\ InRangeOf(result.val.rep, result.val.carry, ty.k)
        /\ SameModulo(result.val.rep, value.int, Bits(ty.k))
        /\ (ty.k = "u8" /\ value.int = 255) => IntResult(255)
        /\ (ty.k = "i16" /\ value.int = -300) => IntResult(-300)
        /\ (ty.k = "u8" /\ value.int = 256) => IntResult(0)
        /\ (ty.k = "u8" /\ value.int = -1) => IntResult(255)

C12_Witness ==
    /\ pc = "done"
    /\ ty = Ty("i8")
    /\ value = Integer(128)
    /\ result = Ok([h |-> "int", int_ty |-> "i8", carry |-> 0, rep |-> -128])

\* the outcome of decoding every node of a path on its own
NodeOutcomes(N, p) == [i \in 1..Len(p.nodes) |-> from_node(N, p.nodes[i])]

\* C13: CyphrPath<N>::from_value on a Path: on success the decoded nodes are
\* those of the path, as many and in the same order, and the relationships and
\* the indices are those of the input, unmodified and in the same order (so
\* len(indices) = 2 * len(rels) carries over); when a node fails to decode the
\* error of the first such node in path order is returned.
C13_Path ==
    (pc = "done" /\ ty.k = "CyphrPath" /\ value.tag = "Path") =>
        LET rs == NodeOutcomes(ty.decl, value)
        IN  IF Failing(rs) = {}
            THEN /\ result.ok
                 /\ result.val.nodes = [i \in 1..Len(value.nodes) |-> rs[i].val]
                 /\ result.val.rels = value.rels
                 /\ Len(result.val.indices) = Len(value.indices)
                 /\ \A i \in 1..Len(value.indices) :
                        Integer(result.val.indices[i]) = value.indices[i]
                 /\ Len(value.indices) = 2 * Len(value.rels) =>
                        Len(result.val.indices) = 2 * Len(result.val.rels)
            ELSE result = rs[Lowest(Failing(rs))]

C13_Witness ==
    /\ pc = "done"
    /\ ty = OfDecl("CyphrPath", User)
    /\ value = Path(<<Bob, Eve, Bob>>, <<Knows, Likes>>, <<1, 1, -2, 2>>)
    /\ result.ok
    /\ Len(result.val.nodes) = 3
    /\ result.val.nodes[2].fields["name"] = [h |-> "String", s |-> "Eve"]
    /\ result.val.indices = <<1, 1, -2, 2>>

\* the targets with an encoding of their own in value.rs
OwnEncoding == {"Point2D", "Point3D", "CyphrBytes"}

\* C14: for Point2D, Point3D and CyphrBytes and every value v of the matching
\* variant, from_value(v) is Ok(x), into_value(x) is v again (the same variant
\* with the same fields) and from_value(into_value(x)) is Ok(x).
C14_RoundTrip ==
    [][/\ (pc = "from_value" /\ ty.k \in OwnEncoding /\ value.tag \in Accepts(ty)) =>
              /\ result'.ok
              /\ IF ty.k = "CyphrBytes"
                 THEN [tag |-> "Bytes", bytes |-> result'.val.bytes] = value
                 ELSE [f \in DOMAIN value \ {"tag"} |-> result'.val[f]]
                          = [f \in DOMAIN value \ {"tag"} |-> value[f]]
       /\ (pc = "done" /\ pc' = "into_value" /\ ty.k \in OwnEncoding) => value' = value
       /\ (pc = "into_value" /\ ty.k \in OwnEncoding) => result' = result]_vars

C14_Witness ==
    /\ pc = "round_trip"
    /\ ty = Ty("Point3D")
    /\ value = Point3D(4979, Float(1, "zero").float, Float(2, "half").float,
                       Float(3, "above").float)
    /\ result = Ok([h |-> "Point3D", sr_id |-> 4979, x |-> Float(1, "zero").float,
                    y |-> Float(2, "half").float, z |-> Float(3, "above").float])

\* the label (for a node type) or type name (for a relationship type) of T
NameOf(T) ==
    IF T.k = "Node"
    THEN IF T.decl.label = None THEN T.decl.ident ELSE T.decl.label[1]
    ELSE IF T.decl.type = None THEN T.decl.ident ELSE T.decl.type[1]

\* NodeWrapper<T> for a node type T, RelationWrapper<T> for a relationship type
WrapperOf(T) ==
    OfDecl(IF T.k = "Node" THEN "NodeWrapper" ELSE "RelationWrapper", T.decl)

\* the result of a wrapper's from_value, with the wrapper taken off
Unwrapped(r) == IF r.ok THEN Ok(r.val.inner) ELSE r

\* C18: a type T derived with CyphrNode (CyphrRelation) converts from a wire
\* value as NodeWrapper<T> (RelationWrapper<T>) does: on a Node (Relationship)
\* value the result is that of T::from_node (from_rel), success or error
\* unchanged; on any other variant it is TypeMismatch with expected "Node"
\* ("Relationship"), got the name of the value's variant and context T's label
\* (type name).
C18_Derived ==
    (pc = "done" /\ ty.k \in {"Node", "Relation"}) =>
        /\ result = Unwrapped(from_value(WrapperOf(ty), value))
        /\ IF value.tag = ty.k
           THEN result = IF ty.k = "Node" THEN from_node(ty.decl, value)
                         ELSE from_rel(ty.decl, value)
           ELSE result = Err(type_mismatch(IF ty.k = "Node" THEN "Node" ELSE "Relationship",
                                           type_name(value), NameOf(ty)))

C18_Witness ==
    /\ pc = "done"
    /\ ty = OfDecl("Node", PersonNode)
    /\ value = Since
    /\ result = Err(type_mismatch("Node", "Relationship", "Person"))

(***************************************************************************)
(* Properties of the derived from_record                                   *)
(***************************************************************************)
Context(ctx, e) == [kind |-> "Context", context |-> ctx, source |-> e]

\* the outcome of every field initialiser of the struct on the record
FieldOutcomes == [i \in 1..Len(ast.fields) |-> record_init(ast, ast.fields[i], record)]

\* from_record has returned and field i was reached: no earlier field failed
Reached(i) ==
    /\ pc = "done" /\ record # Idle
    /\ i \in 1..Len(ast.fields)
    /\ \A j \in 1..(i - 1) : FieldOutcomes[j].ok

\* what field i contributes: the error returned, or the value of the field in
\* the struct returned (NoResult when a later field fails)
Contribution(i) ==
    IF ~FieldOutcomes[i].ok THEN result
    ELSE IF result.ok THEN Ok(result.val.fields[ast.fields[i].ident])
    ELSE NoResult

IsOptionType(T) == T.k = "Option"

\* C3: for a required field (not flatten, target type not an optional) an
\* absent key gives the bare MissingField(key, StructName); a present value is
\* converted and a failure comes back as Context("StructName::fieldName",
\* cause); a present Null gives a wrapped TypeMismatch whose got is "Null",
\* never MissingField.
C3_Required ==
    \A i \in 1..MaxFields :
        (Reached(i) /\ ~ast.fields[i].flatten /\ ~IsOptionType(ast.fields[i].ty)) =>
            LET f == ast.fields[i]
            IN  IF f.ident \notin DOMAIN record
                THEN result = Err(missing_field(f.ident, ast.ident))
                ELSE LET r == from_value(f.ty, record[f.ident])
                     IN  /\ r.ok => Contribution(i) \in {r, NoResult}
                         /\ ~r.ok => result = Err(Context(ast.ident \o "::" \o f.ident, r.err))
                         /\ record[f.ident] = Null =>
                              /\ ~result.ok
                              /\ result.err.kind = "Context"
                              /\ result.err.source.kind = "TypeMismatch"
                              /\ result.err.source.got = "Null"

C3_Witness ==
    /\ pc = "done" /\ record # Idle
    /\ ast.fields = <<Field("name", Ty("String")), Field("age", Ty("i64"))>>
    /\ record = ("name" :> String("Alice") @@ "age" :> Null)
    /\ result = Err(Context("UserRow::age", type_mismatch("Integer", "Null", "i64")))

\* C4: for every field whose target type is an optional of T (not flatten) an
\* absent key gives None and no error, a present Null gives None, a present
\* non-null value gives Some(converted value) and a conversion failure comes
\* back as Context("StructName::fieldName", cause); MissingField is never
\* produced for an optional field.
C4_Optional ==
    \A i \in 1..MaxFields :
        (Reached(i) /\ ~ast.fields[i].flatten /\ IsOptionType(ast.fields[i].ty)) =>
            LET f == ast.fields[i]
            IN  IF f.ident \notin DOMAIN record \/ record[f.ident] = Null
                THEN Contribution(i) \in {Ok([h |-> "None"]), NoResult}
                ELSE LET r == from_value(f.ty.of, record[f.ident])
                     IN  /\ r.ok => Contribution(i) \in
                                        {Ok([h |-> "Some", some |-> r.val]), NoResult}
                         /\ ~r.ok => result = Err(Context(ast.ident \o "::" \o f.ident, r.err))

\* C5: from_record returns Ok(struct) exactly when every field's extraction
\* succeeds, the struct holding every field's value; otherwise it returns the
\* error of the first failing field in declaration order.
C5_FirstFailure ==
    (pc = "done" /\ record # Idle) =>
        IF Failing(FieldOutcomes) = {}
        THEN /\ result.ok
             /\ result.val.name = ast.ident
             /\ DOMAIN result.val.fields = {ast.fields[i].ident : i \in 1..Len(ast.fields)}
             /\ \A i \in 1..Len(ast.fields) :
                    result.val.fields[ast.fields[i].ident] = FieldOutcomes[i].val
        ELSE result = FieldOutcomes[Lowest(Failing(FieldOutcomes))]

C5_Witness ==
    /\ pc = "done" /\ record # Idle
    /\ ast.fields = <<Field("name", Ty("String")), Field("age", Ty("i64"))>>
    /\ record = ("name" :> Integer(30) @@ "age" :> String("Alice"))
    /\ result = Err(Context("UserRow::name", type_mismatch("String", "Integer", "String")))

\* the first declared property of node declaration D that node n does not
\* supply with an accepted variant is present with a wrong one
WrongProperty(D, n, p) ==
    /\ p \in 1..Len(D.fields)
    /\ \A q \in 1..p :
          /\ prop_key(D.fields[q]) \in DOMAIN n.props
          /\ (q < p) = (n.props[prop_key(D.fields[q])].tag \in Accepts(D.fields[q].ty))

C17_Accessor ==
    [][/\ pc' = "get_value" =>
              /\ (result'.got = None) <=> (result'.key \notin DOMAIN record)
              /\ result'.key \in DOMAIN record => result'.got = Some(record[result'.key])
              /\ (result'.key \in DOMAIN record /\ record[result'.key] = Null) =>
                     result'.got = Some(Null)
              /\ record' = record
       /\ pc' = "has_key" =>
              /\ result'.has = (Len(get_value(record, result'.key)) = 1)
              /\ result'.has = (result'.key \in DOMAIN record)
              /\ record' = record]_vars

C17_Witness ==
    /\ pc = "get_value"
    /\ "age" \in DOMAIN record /\ record["age"] = Null
    /\ result = [key |-> "age", got |-> Some(Null)]

(***************************************************************************)
(* Properties of the derived from_node / from_rel                          *)
(***************************************************************************)
\* the label / type name the struct resolves to for the entity at hand
ResolvedName ==
    IF entity.tag = "Node"
    THEN IF ast.label = None THEN ast.ident ELSE ast.label[1]
    ELSE IF ast.type = None THEN ast.ident ELSE ast.type[1]

\* the property key a field resolves to
ResolvedKey(f) == IF f.prop = None THEN f.ident ELSE f.prop[1]

\* field i of the struct reads its property and every earlier field was built
PropertyReached(i) ==
    /\ pc = "done" /\ entity # Idle
    /\ i \in 1..Len(ast.fields)
    /\ \A j \in 1..(i - 1) :
          /\ ResolvedKey(ast.fields[j]) \in DOMAIN entity.props
          /\ from_value(ast.fields[j].ty, entity.props[ResolvedKey(ast.fields[j])]).ok

\* C6: in a derived node or relationship reconstruction, a field whose
\* resolved property key is absent gives MissingProperty(key, label), label
\* being the resolved label / type name; a present value is converted, a
\* failure coming back as Context("Label::fieldName (prop 'key')", cause).
C6_Property ==
    \A i \in 1..MaxProps :
        PropertyReached(i) =>
            LET f == ast.fields[i]
                key == ResolvedKey(f)
            IN  IF key \notin DOMAIN entity.props
                THEN result = Err(missing_property(key, ResolvedName))
                ELSE LET r == from_value(f.ty, entity.props[key])
                     IN  /\ ~r.ok =>
                               result = Err(Context(ResolvedName \o "::" \o f.ident
                                                        \o " (prop '" \o key \o "')", r.err))
                         /\ (r.ok /\ result.ok) => result.val.fields[f.ident] = r.val

C6_Witness ==
    /\ pc = "done" /\ entity # Idle
    /\ ast.label = Some("User")
    /\ ast.fields = <<Field("id", Ty("i64")), FieldProp("name", Ty("String"), "full_name")>>
    /\ entity = Node(<<"User">>, ("id" :> Integer(1) @@ "name" :> String("Bob")))
    /\ result = Err(missing_property("full_name", "User"))

(***************************************************************************)
(* Properties of with_context and of the rendering of a chain              *)
(***************************************************************************)
RECURSIVE Nested(_, _), Trail(_)
\* cs[Len(cs)] around ... around cs[1] around e
Nested(e, cs) ==
    IF cs = << >> THEN e
    ELSE Context(cs[Len(cs)], Nested(e, SubSeq(cs, 1, Len(cs) - 1)))

\* the labels, last applied first, each followed by ": "
Trail(cs) ==
    IF cs = << >> THEN ""
    ELSE cs[Len(cs)] \o ": " \o Trail(SubSeq(cs, 1, Len(cs) - 1))

\* C8: e.with_context(s) is Context{context: s, source: e} with e unchanged,
\* also when e is a Context, so n calls nest n deep; the chain renders as the
\* n labels, outermost first, then the root cause's message, joined by ": ".
C8_Chain ==
    pc = "with_context" =>
        /\ err = Nested(root, applied)
        /\ Display(err) = Trail(applied) \o Display(root)

C8_Witness ==
    /\ pc = "with_context"
    /\ applied = <<"User::age (prop 'age')", "UserRow::u", "parsing User">>
    /\ err.source.source.source = type_mismatch("Integer", "String", "i64")
    /\ Display(err) =
         "parsing User: UserRow::u: User::age (prop 'age'): type mismatch: expected Integer, got String (i64)"

(***************************************************************************)
(* Properties of the derived to_params                                     *)
(***************************************************************************)
\* the key a field is documented to go under (spec.md 4.5)
ParamKey(f) == IF f.prop = None THEN f.ident ELSE f.prop[1]

\* the positions of the fields that are neither skip nor id
Kept == {i \in 1..Len(ast.fields) : ~ast.fields[i].skip /\ ~ast.fields[i].id}

KeptKeys == {ParamKey(ast.fields[i]) : i \in Kept}

\* the kept fields that go under the key k
Under(k) == {i \in Kept : ParamKey(ast.fields[i]) = k}

DistinctKeys == \A i, j \in Kept : ParamKey(ast.fields[i]) = ParamKey(ast.fields[j]) => i = j

Highest(S) == CHOOSE i \in S : \A j \in S : j <= i

ToParamsDone == pc = "done" /\ self # Idle

\* C15: when the fields that are not skip or id resolve to pairwise distinct
\* keys, to_params returns exactly the map from key(f) to into_value of the
\* field's value, f ranging over those fields; key(f) is the prop override if
\* given, else the field name; a skip or id field contributes nothing.
C15_Params ==
    (ToParamsDone /\ DistinctKeys) =>
        /\ DOMAIN result.map = KeptKeys
        /\ \A i \in Kept :
              result.map[ParamKey(ast.fields[i])] = into_value(self[ast.fields[i].ident])

C15_Witness ==
    /\ ToParamsDone
    /\ ast.fields = <<ParamField(1, None, FALSE, TRUE), ParamField(2, None, FALSE, FALSE),
                      ParamField(3, None, FALSE, FALSE)>>
    /\ self["name"].s = "Bob" /\ self["age"].rep = 30
    /\ result.map = ("name" :> String("Bob") @@ "age" :> Integer(30))

\* C16: when two or more kept fields resolve to the same key, to_params still
\* returns a map: it has one entry for that key, holding the value of the last
\* such field in declaration order, and the other keys' entries are as they
\* would be without the clash.
C16_LastWins ==
    (ToParamsDone /\ ~DistinctKeys) =>
        /\ result.h = "HashMap"
        /\ DOMAIN result.map = KeptKeys
        /\ \A k \in KeptKeys :
              result.map[k] = into_value(self[ast.fields[Highest(Under(k))].ident])

C16_Witness ==
    /\ ToParamsDone
    /\ ast.fields = <<ParamField(1, Some("name"), FALSE, FALSE),
                      ParamField(2, None, FALSE, FALSE),
                      ParamField(3, None, FALSE, FALSE)>>
    /\ self["id"].rep = 999 /\ self["name"].s = "Bob" /\ self["age"].rep = 30
    /\ result.map = ("name" :> String("Bob") @@ "age" :> Integer(30))

(***************************************************************************)
(* Properties of the names the derives resolve                             *)
(***************************************************************************)
\* C19: name resolution is the same in every derived schema (node,
\* relationship, record projection, parameter serialization): the label / type
\* name is the label / type attribute when one is given, else the struct's
\* name; the key a field is looked up or inserted under is the field's
\* property / column override when one is given, else the field's name.
C19_Resolution ==
    /\ C6_Property
    /\ ToParamsDone => DOMAIN result.map = KeptKeys
    /\ \A i \in 1..MaxFields :
          (Reached(i) /\ ~ast.fields[i].flatten) =>
              LET f == ast.fields[i]
                  key == ResolvedKey(f)
              IN  IF key \in DOMAIN record
                  THEN LET r == from_value(f.ty, record[key])
                       IN  /\ r.ok => Contribution(i) \in {r, NoResult}
                           /\ ~r.ok => /\ ~result.ok
                                       /\ result.err.kind = "Context"
                                       /\ result.err.source = r.err
                  ELSE IF is_option(f.ty)
                       THEN Contribution(i) \in {Ok([h |-> "None"]), NoResult}
                       ELSE ~result.ok /\ result.err.kind = "MissingField"

\* the strategy a field is documented to get (spec.md 4.4): flatten for a
\* field with the flatten flag, whatever its type; else optional exactly when
\* the target type is an optional; else required
DocumentedStrategy(f) ==
    IF f.flatten THEN "flatten"
    ELSE IF IsOptionType(f.ty) THEN "option"
    ELSE "required"

\* C20: every field of a record-projection schema gets exactly one extraction
\* strategy, a function of the field schema alone: flatten if the field
\* carries the flatten flag, whatever its type; otherwise the optional-field
\* strategy if and only if its target type is an optional of T; otherwise the
\* required-field strategy.
C20_Strategy ==
    (pc = "done" /\ record # Idle) =>
        \A i \in 1..Len(ast.fields) :
            strategy(ast.fields[i]) = DocumentedStrategy(ast.fields[i])

(***************************************************************************)
(* Properties of cypher_query!                                             *)
(***************************************************************************)
\* the token stream as it is written: a group is its opening delimiter, its
\* tokens, its closing delimiter
RECURSIVE Written(_)
Written(s) ==
    IF s = << >>
    THEN << >>
    ELSE (IF Head(s).t = "Group"
          THEN <<[t |-> "Open"]>> \o Written(Head(s).stream) \o <<[t |-> "Close"]>>
          ELSE <<Head(s)>>) \o Written(Tail(s))

\* the places of the written stream where a `$` stands immediately before an
\* identifier
Placeholders(w) == {i \in 1..(Len(w) - 1) : w[i] = Dollar /\ w[i + 1].t = "Ident"}

\* the first place where `$name` is written
FirstPlace(w, name) ==
    CHOOSE i \in Placeholders(w) :
        /\ w[i + 1].name = name
        /\ \A j \in Placeholders(w) : w[j + 1].name = name => i <= j

\* C21: the calls cypher_query! generates are one `.param("name", name)` for
\* each distinct name written as `$name` anywhere in the input, inside groups
\* of any depth included, and for nothing else (not for an identifier without
\* a `$` right before it, not for a `$` without an identifier right after
\* it); the calls stand in the order in which the names are first written.
C21_Bindings ==
    pc = "expanded" =>
        LET w == Written(tokens)
            calls == result.param_calls
        IN  /\ {calls[k].name : k \in 1..Len(calls)} =
                   {w[i + 1].name : i \in Placeholders(w)}
            /\ \A k \in 1..Len(calls) : calls[k].ident = Ident(calls[k].name)
            /\ \A j, k \in 1..Len(calls) :
                   j < k => FirstPlace(w, calls[j].name) < FirstPlace(w, calls[k].name)

\* `$b` first inside two nested groups and again at the top level, `$a` after
\* it, and a `$` that no identifier follows: two calls, b before a
C21_Witness ==
    /\ pc = "expanded"
    /\ tokens = <<Group(<<Group(<<Dollar, Ident("b")>>), Ident("b")>>),
                  Group(<<Dollar, Ident("a")>>), Group(<<Dollar, Ident("b")>>)>>
    /\ result.param_calls = <<param_call(Ident("b")), param_call(Ident("a"))>>

(***************************************************************************)
(* Properties of every conversion                                          *)
(***************************************************************************)
\* a == b on two wire values.  A Map holds a HashMap, and two HashMaps are
\* equal when they hold the same entries, in whatever order each of them
\* iterates.
SameInput(a, b) ==
    IF a.tag = "Map" /\ b.tag = "Map"
    THEN {a.entries[i] : i \in 1..Len(a.entries)} = {b.entries[i] : i \in 1..Len(b.entries)}
    ELSE a = b

\* C22: from_value is a function of its input: on every wire value equal to
\* the one it was called on it returns the result it returned, the same value
\* on success and the same error on failure, also when more than one element
\* of the input fails to convert.
C22_Deterministic ==
    pc = "done" =>
        \A w \in WireValues : SameInput(w, value) => from_value(ty, w) = result

\* what the k-th pop() on a Vec returns
RECURSIVE Popped(_, _)
Popped(xs, k) == IF k = 1 THEN pop(xs).item ELSE Popped(pop(xs).rest, k - 1)

\* C23: from_value never panics, it returns Ok or Err for every wire value;
\* the tuple conversions pop only a List of exactly as many elements as the
\* tuple has components, so that every pop() returns Some, and return Err
\* for every other value.
C23_NoPanic ==
    pc = "done" =>
        /\ result # Panic
        /\ result.ok \in BOOLEAN
        /\ IsTuple(ty) =>
               IF value.tag = "List" /\ Len(value.list) = Arity(ty)
               THEN \A k \in 1..Arity(ty) : Popped(value.list, k) # None
               ELSE ~result.ok

\* a List of two elements handed to a tuple of three: no pop, an error
C23_Witness ==
    /\ pc = "done"
    /\ ty = Tuple3Of(Ty("i64"), Ty("String"), Ty("i64"))
    /\ value = List(<<Integer(1), String("a")>>)
    /\ result = Err(type_mismatch("List[3]", "List", "tuple(A, B, C)"))

(***************************************************************************)
(* Properties of the fetch methods and of CyphrStream                      *)
(***************************************************************************)
\* the items the backend delivers, in its order, once execute has succeeded
Delivered == graph.execute.val

\* what one backend item comes to: a row is projected into T, a driver error
\* is wrapped in Neo4j
Outcome(item) == IF item.ok THEN from_record(ast, item.val) ELSE Err(Neo4j(item.err))

\* C24: the k-th call of next() on a CyphrStream returns Some of the outcome of
\* the k-th item the backend delivers, and None when (and only when) the
\* backend has no k-th item; the stream has asked the backend for exactly as
\* many items as next() has returned results, so no item is requested before
\* the one before it has been converted and returned.
C24_StreamOrder ==
    pc \in {"stream", "exhausted"} =>
        /\ \A k \in 1..Len(returned) :
               returned[k] = IF k <= Len(Delivered) THEN Some(Outcome(Delivered[k])) ELSE None
        /\ Len(returned) <= Len(Delivered) + 1
        /\ row_stream.polled = Len(returned)
        /\ row_stream.items = SubSeq(Delivered, Len(returned) + 1, Len(Delivered))
        /\ pc = "exhausted" <=> Len(returned) = Len(Delivered) + 1

\* three items, the second a driver error: four calls, the last returns None
C24_Witness ==
    /\ pc = "exhausted"
    /\ Len(Delivered) = 3
    /\ ~Delivered[2].ok
    /\ Len(returned) = 4
    /\ returned[1][1].ok
    /\ returned[2] = Some(Err(Neo4j("connection reset")))
    /\ returned[3] = Some(from_record(ast, ("name" :> String("Alice"))))
    /\ returned[3][1].ok
    /\ returned[4] = None

\* C25: fetch_one and fetch_one_in return the Neo4j error when execute fails;
\* otherwise they ask the backend for one item, whatever the number of rows it
\* holds, and return MissingField("row", <the method's name>) when there is
\* none, the Neo4j error when the item is a driver error, and T::from_record
\* of the row when it is a row.
C25_FetchOne ==
    pc \in {"fetch_one", "fetch_one_in"} =>
        IF ~graph.execute.ok
        THEN result = Err(Neo4j(graph.execute.err)) /\ row_stream = Idle
        ELSE /\ row_stream.polled = 1
             /\ row_stream.items = SubSeq(Delivered, 2, Len(Delivered))
             /\ result = IF Delivered = << >>
                         THEN Err(missing_field("row", pc))
                         ELSE Outcome(Delivered[1])

\* three rows, one asked for
C25_Witness ==
    /\ pc = "fetch_one_in"
    /\ graph.execute.ok
    /\ Len(Delivered) = 3
    /\ result = Outcome(Delivered[1])
    /\ result.ok
    /\ row_stream.polled = 1
    /\ Len(row_stream.items) = 2

\* C26: fetch_all and fetch_all_in return, when every item is a row that
\* converts, Ok of the converted rows in the backend's order, having asked
\* until the backend reported the end; otherwise they return the error of the
\* first item, in order, that is a driver error or a row that fails to
\* convert, and ask for no item after that one.
C26_FetchAll ==
    pc \in {"fetch_all", "fetch_all_in"} =>
        IF ~graph.execute.ok
        THEN result = Err(Neo4j(graph.execute.err)) /\ row_stream = Idle
        ELSE LET rs == [k \in 1..Len(Delivered) |-> Outcome(Delivered[k])]
             IN  IF Failing(rs) = {}
                 THEN /\ result = Ok([h |-> "Vec",
                                      items |-> [k \in 1..Len(rs) |-> rs[k].val]])
                      /\ row_stream.polled = Len(Delivered) + 1
                 ELSE /\ result = rs[Lowest(Failing(rs))]
                      /\ row_stream.polled = Lowest(Failing(rs))
                      /\ row_stream.items =
                             SubSeq(Delivered, Lowest(Failing(rs)) + 1, Len(Delivered))

\* the second of three rows fails to convert: its error, and the third row is
\* never asked for
C26_Witness ==
    /\ pc = "fetch_all"
    /\ graph.execute.ok
    /\ Len(Delivered) = 3
    /\ Outcome(Delivered[1]).ok /\ Delivered[2].ok /\ Outcome(Delivered[3]).ok
    /\ ~result.ok
    /\ result = Outcome(Delivered[2])
    /\ row_stream.polled = 2
    /\ row_stream.items = <<Delivered[3]>>

(***************************************************************************)
(* Properties of the temporal conversions and of type_name                 *)
(***************************************************************************)
\* the variants a temporal target accepts, and the name its mismatch expects
AcceptedBy(T) ==
    CASE T.k = "DateTime" -> {"DateTime", "DateTimeZoneId"}
      [] T.k = "NaiveDate" -> {"Date"}
      [] T.k = "NaiveDateTime" -> {"LocalDateTime"}

ExpectedBy(T) ==
    CASE T.k = "DateTime" -> "DateTime"
      [] T.k = "NaiveDate" -> "Date"
      [] T.k = "NaiveDateTime" -> "LocalDateTime"

\* the host type a temporal target is
HostOf(T) == IF T.k = "DateTime" THEN "DateTime<FixedOffset>" ELSE T.k

\* msg holds original at its end, after a description of the conversion
CarriesMessage(msg, original) ==
    \E from \in {"BoltDate", "BoltLocalDateTime", "BoltDateTime", "BoltDateTimeZoneId"} :
        \E to \in {"NaiveDate", "NaiveDateTime", "DateTime<FixedOffset>"} :
            msg = from \o " -> " \o to \o ": " \o original

\* C27: DateTime<FixedOffset>::from_value accepts the DateTime and the
\* DateTimeZoneId variant, and both give the one host type
\* DateTime<FixedOffset>; every other variant is rejected with a TypeMismatch
\* that expects "DateTime".  When the driver's reinterpretation of an accepted
\* value fails, the result is a Mapping error whose message holds the
\* driver's message.  NaiveDate (from Date) and NaiveDateTime (from
\* LocalDateTime) wrap a failing reinterpretation the same way.
C27_DateTime ==
    (pc = "done" /\ ty.k \in {"DateTime", "NaiveDate", "NaiveDateTime"}) =>
        IF value.tag \in AcceptedBy(ty)
        THEN IF value.fails = None
             THEN result = Ok([h |-> HostOf(ty), t |-> value.t])
             ELSE /\ ~result.ok
                  /\ result.err.kind = "Mapping"
                  /\ CarriesMessage(result.err.msg, value.fails[1])
        ELSE IsMismatch(result, ExpectedBy(ty), type_name(value))

\* a zoned value whose zone the driver cannot resolve
C27_Witness ==
    /\ pc = "done"
    /\ ty = Ty("DateTime")
    /\ value = Temporal("DateTimeZoneId", "2024-01-15T10:00:00[Mars/Base]",
                        Some("conversion error"))
    /\ result =
           Err(Mapping("BoltDateTimeZoneId -> DateTime<FixedOffset>: conversion error"))

\* C28: type_name gives every one of the 21 variants a name, the name is not
\* empty and does not depend on the payload, and no two variants share a
\* name.
C28_TypeName ==
    /\ Cardinality(BoltVariants) = 21
    /\ \A t \in BoltVariants : \E w \in WireValues : w.tag = t
    /\ pc = "named" =>
           /\ result.name # ""
           /\ \A w \in WireValues : type_name(w) = result.name <=> w.tag = value.tag

\* an unbound relationship, whose name is not that of a bound one
C28_Witness ==
    /\ pc = "named"
    /\ value = Knows
    /\ result.name = "UnboundedRelationship"

(***************************************************************************)
(* Properties of flatten fields                                            *)
(***************************************************************************)
\* the number of Context layers around the root cause of an error
RECURSIVE Layers(_)
Layers(e) == IF e.kind = "Context" THEN 1 + Layers(e.source) ELSE 0

\* C29: a flatten field is initialised with what the from_record of its type
\* returns on the same record: its value on success, and on failure its error
\* as it is, with no Context layer added, however deep the flatten fields
\* nest; a key the innermost struct misses comes out as
\* MissingField(key, <the innermost struct's name>).
C29_Flatten ==
    \A i \in 1..MaxFields :
        (Reached(i) /\ ast.fields[i].flatten) =>
            LET inner == ast.fields[i].ty.decl
                r == from_record(inner, record)
                deepest == from_record(InnerResult, record)
            IN  /\ IF r.ok
                   THEN result.ok => result.val.fields[ast.fields[i].ident] = r.val
                   ELSE result = r /\ Layers(result.err) = Layers(r.err)
                /\ ~deepest.ok =>
                       /\ result = deepest
                       /\ Layers(result.err) <= 1
                       /\ "name" \notin DOMAIN record =>
                              result = Err(missing_field("name", "InnerResult"))

\* a struct that flattens MiddleResult, which flattens InnerResult, on a row
\* without the column name
C29_Witness ==
    /\ pc = "done" /\ record # Idle
    /\ ast.fields[1] = FieldFlatten("name", OfDecl("Struct", MiddleResult))
    /\ DOMAIN record = {"age"}
    /\ result = Err(missing_field("name", "InnerResult"))

(***************************************************************************)
(* Properties of a CyphrStream after a failure                             *)
(***************************************************************************)
\* the last call of next() returned Some(Err(_))
LastFailed ==
    /\ returned # << >>
    /\ returned[Len(returned)] # None
    /\ ~returned[Len(returned)][1].ok

\* C30: a CyphrStream is over only when next() has returned None, and it
\* returns None only when the backend has no item left: after a call that
\* returned Some(Err(_)), for a row that failed to convert or for a driver
\* error, the stream can still be read, and the next call asks the backend for
\* one more item and returns that item's outcome, which depends on nothing but
\* the item.  fetch_all on the same backend stops at the first failure.
C30_ErrorDoesNotEnd ==
    /\ [](pc \in {"stream", "exhausted"} =>
            /\ pc = "exhausted" <=> (returned # << >> /\ returned[Len(returned)] = None)
            /\ \A k \in 1..Len(returned) :
                   returned[k] = None => k = Len(Delivered) + 1)
    /\ [][(pc = "stream" /\ LastFailed) =>
            /\ returned' = Append(returned,
                                  IF row_stream.items = << >> THEN None
                                  ELSE Some(Outcome(Head(row_stream.items))))
            /\ row_stream'.polled = row_stream.polled + 1]_vars
    /\ []((pc = "fetch_all" /\ graph.execute.ok) =>
            LET rs == [k \in 1..Len(Delivered) |-> Outcome(Delivered[k])]
            IN  Failing(rs) # {} =>
                    ~result.ok /\ row_stream.polled = Lowest(Failing(rs)))

\* the first row fails to convert, the second call returns the second row
C30_Witness ==
    /\ pc = "stream"
    /\ Len(returned) = 2
    /\ Delivered[1].ok
    /\ ~returned[1][1].ok
    /\ returned[2] # None
    /\ returned[2][1].ok

====
